---- MODULE Spec2Model ----
(***************************************************************************)
(* Retrieval-augmented semantic scoring engine of the outfit-scoring       *)
(* backend: VectorScoringService (app/services/vector_scoring_service.py), *)
(* its startup in app/main.py, the /vector-score endpoint                  *)
(* (app/api/v1/vector_scoring.py) and the retrieval calls of the style and *)
(* colour analyses.                                                        *)
(*                                                                         *)
(* Numbers: the similarities of hits are kept in hundredths (30 is 0.30),  *)
(* the outfit/mood similarity in thousandths (146 is 0.146), the mood      *)
(* multiplier in tenths (4, 7, 10, 11 are 0.4, 0.7, 1.0, 1.1).             *)
(* Texts are strings, built by concatenation exactly as the f-strings and  *)
(* the `+` of the source build them.                                       *)
(***************************************************************************)
EXTENDS Integers, Sequences, FiniteSets, TLC

VARIABLES
    corpus,            \* the *.json files of rules_dir, in glob order
    client,            \* self.client is set (QdrantClient constructed)
    model,             \* self.model is set (SentenceTransformer loaded)
    collectionExists,  \* "fashion_rules" exists in the on-disk qdrant_db
    index,             \* the points (IndexEntries) of the collection
    lastInit,          \* what the last initialize() call did
    result,            \* the outcome of the last score_outfit_semantic call
    retrieved,         \* the outcome of the last retrieve_* call
    running,           \* the initialize() calls in flight, thread by thread
    fin,               \* the one request of the fusion/retrieval/flattener specification
    retry,             \* the _generate_with_retry call of the colour analysis
    rules_cache,       \* RuleBasedScoringService.rules_cache
    wardrobe           \* the users and wardrobe collections, the image bucket
                       \* and the /remove request in flight

vars == <<corpus, client, model, collectionExists, index, lastInit, result,
          retrieved, running, fin, retry, rules_cache, wardrobe>>

\* The most item ids of one /remove request.
MaxItems == 2

\* The most calls of the rule-based endpoint that are followed.
MaxCalls == 3

\* What only the vector scoring service touches.
vectorVars == <<corpus, client, model, collectionExists, index, lastInit, result,
                retrieved, running, fin>>

\* No _generate_with_retry call, no rules loaded, no wardrobe request.
\* A _generate_with_retry call: where it stands, its attempt counter, the
\* outcome of every generate_content call so far, the sleeps it took (base
\* delay in seconds, jitter in tenths of a second), and how it ended: the
\* response is named by the number of the call that produced it (0: None).
NoRetry == [pc |-> "idle", attempt |-> 0, log |-> <<>>, sleeps |-> <<>>,
            response |-> 0, error |-> ""]
\* rules_cache = {}: neither rule book is loaded.  Of a loaded rule book the
\* cache is modelled by its outfit_formulas list: `has` tells whether the
\* document holds that list at all.
NoBook == [has |-> FALSE, outfit_formulas |-> <<>>]

NoRules == [curated |-> NoBook, dior |-> NoBook]
\* No /remove request: an empty database and bucket, no task.
NoWardrobe ==
    [docs |-> {}, images |-> {}, lists |-> <<>>, user_id |-> "", item_ids |-> <<>>,
     tasks |-> <<>>, effects |-> {},
     response |-> [sent |-> FALSE, deleted_count |-> 0, errors |-> <<>>]]

(***************************************************************************)
(* Bounds of the model.                                                    *)
(***************************************************************************)
MaxFiles == 2          \* at most this many files in rules_dir
MaxRules == 6          \* at most this many fragments in the fusion's rule book
NumThreads == 2        \* concurrent callers of initialize()
MaxWidth == 2          \* at most this many members in a flattened document's root

Min(a, b) == IF a <= b THEN a ELSE b
Max(a, b) == IF a >= b THEN a ELSE b
Range(s) == {s[i] : i \in 1..Len(s)}

(***************************************************************************)
(* JSON values (json.load): one record shape for every kind.               *)
(***************************************************************************)
JStr(s)        == [t |-> "str",  s |-> s,  n |-> 0, keys |-> <<>>, items |-> <<>>]
JInt(n)        == [t |-> "int",  s |-> "", n |-> n, keys |-> <<>>, items |-> <<>>]
JBool(b)       == [t |-> "bool", s |-> "", n |-> IF b THEN 1 ELSE 0, keys |-> <<>>, items |-> <<>>]
JNull          == [t |-> "null", s |-> "", n |-> 0, keys |-> <<>>, items |-> <<>>]
JList(items)   == [t |-> "list", s |-> "", n |-> 0, keys |-> <<>>, items |-> items]
JDict(ks, vs)  == [t |-> "dict", s |-> "", n |-> 0, keys |-> ks,   items |-> vs]

\* Python's str() of a non-string scalar: str(2) = "2", str(True) = "True",
\* str(None) = "None".
PyStr(x) ==
    IF x.t = "int" THEN ToString(x.n)
    ELSE IF x.t = "bool" THEN (IF x.n = 1 THEN "True" ELSE "False")
    ELSE "None"

(***************************************************************************)
(* _flatten_json: the recursive walk, `out` in emission order.             *)
(***************************************************************************)
RECURSIVE flatten(_, _)
RECURSIVE flattenMembers(_, _, _)

\* flattenMembers qualifying every list element, strings too, by its index.
RECURSIVE flattenMembersIndexAll(_, _, _)
flattenMembersIndexAll(x, name, i) ==
    IF i > Len(x.items) THEN <<>>
    ELSE LET a == x.items[i]
             here == IF x.t = "dict"
                       THEN flatten(a, name \o x.keys[i] \o ": ")
                     ELSE flatten(a, name \o ToString(i - 1) \o ": ")
         IN  here \o flattenMembersIndexAll(x, name, i + 1)

\* The two `for` loops of flatten, from member i on.
flattenMembers(x, name, i) ==
    IF i > Len(x.items) THEN <<>>
    ELSE LET a == x.items[i]
             here == IF x.t = "dict"
                       THEN flatten(a, name \o x.keys[i] \o ": ")
                     ELSE IF a.t = "str"
                       THEN <<name \o a.s>>
                     ELSE flatten(a, name \o ToString(i - 1) \o ": ")
         IN  here \o flattenMembers(x, name, i + 1)

\* flatten testing the truth of a scalar (`elif x:`) before emitting it.
flattenTruthy(x, name) ==
    IF x.t = "dict" \/ x.t = "list" THEN flattenMembers(x, name, 1)
    ELSE IF x.t = "str" THEN (IF x.s # "" THEN <<name \o x.s>> ELSE <<>>)
    ELSE IF x.t = "null" \/ (x.t = "bool" /\ x.n = 0) \/ (x.t = "int" /\ x.n = 0)
      THEN <<>>
    ELSE <<name \o PyStr(x)>>

flatten(x, name) ==
    IF x.t = "dict" \/ x.t = "list" THEN flattenMembers(x, name, 1)
    ELSE IF x.t = "str" THEN <<name \o x.s>>
    ELSE <<name \o PyStr(x)>>

\* FlattenJson with `out` kept across calls (a list made once, not per call).
FlattenJsonSharedOut(y) == fin.out \o flatten(y, "")

FlattenJson(y) == flatten(y, "")

(***************************************************************************)
(* The corpus: files rules_dir may hold.  A file is readable (open and     *)
(* json.load succeed, giving `data`) or not.                               *)
(***************************************************************************)
ColorsJson ==
    JList(<< JDict(<<"name", "hex", "combinations">>,
                   <<JStr("Hermosa Pink"), JStr("#F1A7B3"), JList(<<JInt(2)>>)>>) >>)

FormulasJson ==
    JDict(<<"casual", "strict", "note">>,
          <<JList(<<JStr("tee"), JStr("jeans")>>), JBool(TRUE), JNull>>)

CandidateFiles ==
    { [name |-> "colors.json",   readable |-> TRUE,  data |-> ColorsJson],
      [name |-> "formulas.json", readable |-> TRUE,  data |-> FormulasJson],
      [name |-> "empty.json",    readable |-> TRUE,  data |-> JDict(<<>>, <<>>)],
      [name |-> "broken.json",   readable |-> FALSE, data |-> JNull] }

\* Directory listings: sequences of distinct files, at most MaxFiles long.
RECURSIVE Listings(_)
Listings(n) ==
    IF n = 0 THEN {<<>>}
    ELSE LET shorter == Listings(n - 1)
         IN  shorter \cup
             { Append(l, f) : l \in {s \in shorter : Len(s) = n - 1},
                              f \in CandidateFiles }

Distinct(l) == \A i, j \in 1..Len(l) : i # j => l[i].name # l[j].name

Corpora == {l \in Listings(MaxFiles) : Distinct(l)}

Chunks(file) == IF file.readable THEN FlattenJson(file.data) ELSE <<>>

(***************************************************************************)
(* The embedding service.  model.encode(text) either returns the vector of *)
(* the text or raises.  A vector is kept as the text it embeds.            *)
(***************************************************************************)
Encode(text) == <<"vec", text>>

\* Which encode call of each file raises in one ingest run: 0 for none,
\* k for the k-th call made for that file (the file's later chunks are then
\* never reached).
RECURSIVE MaxChunks(_)
MaxChunks(files) ==
    IF files = <<>> THEN 0
    ELSE Max(Len(Chunks(Head(files))), MaxChunks(Tail(files)))

FailChoices(files) ==
    { f \in [1..Len(files) -> 0..MaxChunks(files)] :
        \A i \in 1..Len(files) : f[i] <= Len(Chunks(files[i])) }

(***************************************************************************)
(* ingest_rules: the loop over json_files.                                 *)
(***************************************************************************)
PointStruct(id, filename, chunk) ==
    [id |-> id,
     vector |-> Encode("Rule from " \o filename \o ": " \o chunk),
     payload |-> [source |-> filename, text |-> chunk]]

\* The inner `for chunk in chunks` loop over chunks[k..upto], appending to
\* acc = [points, point_id].
RECURSIVE EmbedChunks(_, _, _, _, _)
EmbedChunks(filename, chunks, k, upto, acc) ==
    IF k > upto THEN acc
    ELSE EmbedChunks(filename, chunks, k + 1, upto,
             [points   |-> Append(acc.points, PointStruct(acc.point_id, filename, chunks[k])),
              point_id |-> acc.point_id + 1])

\* IngestFile with point_id reset for every file (point_id = 0 inside the loop).
IngestFileResetId(file, failAt, st) ==
    IF ~file.readable
      THEN [st EXCEPT !.logged = @ \cup {file.name},
                      !.readFailed = @ \cup {file.name}]
    ELSE LET chunks == Chunks(file)
             raises == failAt > 0 /\ failAt <= Len(chunks)
             upto   == IF raises THEN failAt - 1 ELSE Len(chunks)
             acc    == EmbedChunks(file.name, chunks, 1, upto,
                                   [points |-> st.points, point_id |-> 0])
         IN  [st EXCEPT !.points = acc.points,
                        !.point_id = acc.point_id,
                        !.logged = IF raises THEN @ \cup {file.name} ELSE @,
                        !.embedFailed = IF raises THEN @ \cup {file.name} ELSE @]

\* One iteration of `for file_path in json_files`, the try/except included:
\* st = [points, point_id, logged, readFailed, embedFailed].
IngestFile(file, failAt, st) ==
    IF ~file.readable
      THEN [st EXCEPT !.logged = @ \cup {file.name},
                      !.readFailed = @ \cup {file.name}]
    ELSE LET chunks == Chunks(file)
             raises == failAt > 0 /\ failAt <= Len(chunks)
             upto   == IF raises THEN failAt - 1 ELSE Len(chunks)
             acc    == EmbedChunks(file.name, chunks, 1, upto,
                                   [points |-> st.points, point_id |-> st.point_id])
         IN  [st EXCEPT !.points = acc.points,
                        !.point_id = acc.point_id,
                        !.logged = IF raises THEN @ \cup {file.name} ELSE @,
                        !.embedFailed = IF raises THEN @ \cup {file.name} ELSE @]

RECURSIVE IngestLoop(_, _, _, _)
RECURSIVE IngestLoopAbortOnError(_, _, _, _)

\* IngestLoop with the try around the whole loop: the first file that cannot
\* be read ends the loop.
IngestLoopAbortOnError(files, failAt, i, st) ==
    IF i > Len(files) THEN st
    ELSE IF ~files[i].readable THEN IngestFile(files[i], failAt[i], st)
    ELSE IngestLoopAbortOnError(files, failAt, i + 1, IngestFile(files[i], failAt[i], st))

IngestLoop(files, failAt, i, st) ==
    IF i > Len(files) THEN st
    ELSE IngestLoop(files, failAt, i + 1, IngestFile(files[i], failAt[i], st))

IngestStart ==
    [points |-> <<>>, point_id |-> 0, logged |-> {}, readFailed |-> {}, embedFailed |-> {}]

\* client.upsert: a point replaces the stored point of the same id.
Upsert(idx, points) ==
    {p \in idx : \A i \in 1..Len(points) : points[i].id # p.id} \cup Range(points)

\* IngestRules without the `if points:` guard: upsert is always called.
IngestRulesAlwaysUpsert(idx, files, failAt, upsertOk) ==
    LET st == IngestLoop(files, failAt, 1, IngestStart)
    IN  [index       |-> IF upsertOk THEN Upsert(idx, st.points) ELSE idx,
         points      |-> st.points,
         upsertCalls |-> 1,
         raised      |-> ~upsertOk,
         logged      |-> st.logged,
         readFailed  |-> st.readFailed,
         embedFailed |-> st.embedFailed]

\* ingest_rules: the loop, then `if points: upsert`.  upsertOk is whether the
\* index accepts the batch; the call raises when it does not.
IngestRules(idx, files, failAt, upsertOk) ==
    LET st == IngestLoop(files, failAt, 1, IngestStart)
        calls == IF st.points # <<>> THEN 1 ELSE 0
        raised == calls = 1 /\ ~upsertOk
    IN  [index       |-> IF calls = 1 /\ upsertOk THEN Upsert(idx, st.points) ELSE idx,
         points      |-> st.points,
         upsertCalls |-> calls,
         raised      |-> raised,
         logged      |-> st.logged,
         readFailed  |-> st.readFailed,
         embedFailed |-> st.embedFailed]

(***************************************************************************)
(* initialize() with init_collection(): the whole startup handler.         *)
(***************************************************************************)
NoInit ==
    [ran |-> FALSE, existed |-> FALSE, created |-> FALSE, upsertCalls |-> 0,
     points |-> <<>>, raised |-> FALSE, logged |-> {}, readFailed |-> {},
     embedFailed |-> {}, failAt |-> <<>>, upsertOk |-> TRUE, indexBefore |-> {}]

NoMood == [given |-> FALSE, text |-> ""]

NoResult ==
    [status |-> "none", cause |-> "", total_score |-> 0, breakdown |-> <<>>, critique |-> "",
     encodeCalls |-> 0, gateCalls |-> 0, hits |-> <<>>, mood |-> NoMood,
     moodSim |-> 0, multiplier |-> 10,
     http |-> 0, up |-> FALSE, encodeOk |-> TRUE, queryOk |-> TRUE]

\* No retrieve_* call yet.  fn, query, source, limit, up, encodeOk and queryOk
\* record the call; status, cause, value and hits what it did.
NoRetrieval ==
    [fn |-> "", status |-> "none", cause |-> "", value |-> "", hits |-> <<>>,
     query |-> <<>>, source |-> "", limit |-> 0,
     up |-> FALSE, encodeOk |-> TRUE, queryOk |-> TRUE]

\* No initialize() call in flight.
NoCalls == <<>>

\* uvicorn runs startup_event before it serves; when initialize() raises
\* there the application startup fails and the process exits.
StartupFailed == lastInit.ran /\ lastInit.raised

NoFusion == [sims |-> <<>>, mood |-> NoMood, moodSim |-> 0, done |-> FALSE]

\* InitCollection without the existence gate: it creates and ingests anew.
InitCollectionNoGate(failAt, upsertOk) ==
    LET r == IngestRules(index, corpus, failAt, upsertOk)
    IN  /\ collectionExists' = TRUE
        /\ index' = r.index
        /\ lastInit' = [ran |-> TRUE, existed |-> collectionExists, created |-> TRUE,
                        upsertCalls |-> r.upsertCalls, points |-> r.points,
                        raised |-> r.raised, logged |-> r.logged,
                        readFailed |-> r.readFailed,
                        embedFailed |-> r.embedFailed, failAt |-> failAt,
                        upsertOk |-> upsertOk, indexBefore |-> index]

\* init_collection: create the collection and ingest, unless it exists.
InitCollection(failAt, upsertOk) ==
    IF collectionExists
      THEN /\ UNCHANGED <<collectionExists, index>>
           /\ lastInit' = [NoInit EXCEPT !.ran = TRUE, !.existed = TRUE,
                                         !.indexBefore = index]
      ELSE LET r == IngestRules(index, corpus, failAt, upsertOk)
           IN  /\ collectionExists' = TRUE
               /\ index' = r.index
               /\ lastInit' = [ran |-> TRUE, existed |-> FALSE, created |-> TRUE,
                               upsertCalls |-> r.upsertCalls, points |-> r.points,
                               raised |-> r.raised, logged |-> r.logged,
                               readFailed |-> r.readFailed,
                               embedFailed |-> r.embedFailed, failAt |-> failAt,
                               upsertOk |-> upsertOk, indexBefore |-> index]

Initialize(failAt, upsertOk) ==
    /\ ~StartupFailed
    /\ client' = TRUE
    /\ model' = TRUE
    /\ InitCollection(failAt, upsertOk)
    /\ UNCHANGED <<corpus, result, retrieved, running, fin>>
    /\ UNCHANGED <<retry, rules_cache, wardrobe>>

\* A new process: VectorScoringService.__init__ leaves client and model unset;
\* the collection lives on in qdrant_db.
Restart ==
    /\ client
    /\ client' = FALSE
    /\ model' = FALSE
    /\ lastInit' = NoInit
    /\ result' = NoResult
    /\ retrieved' = NoRetrieval
    /\ UNCHANGED <<corpus, collectionExists, index, running, fin>>
    /\ UNCHANGED <<retry, rules_cache, wardrobe>>

(***************************************************************************)
(* score_outfit_semantic.                                                  *)
(***************************************************************************)
BaseScore == 60            \* total_score = 60
QueryLimit == 5            \* limit=5
RelevanceThreshold == 30   \* relevance > 0.3
ScoreCap == 100            \* min(100, ...)

\* `if mood:` a mood that is None or the empty string is falsy.
Truthy(mood) == mood.given /\ mood.text # ""

\* MoodMultiplier with the boost boundary included (sim >= 0.4).
MoodMultiplierInclusive(sim) ==
    IF sim < 150 THEN 4
    ELSE IF sim < 250 THEN 7
    ELSE IF sim >= 400 THEN 11
    ELSE 10

\* The penalty logic on the outfit/mood cosine similarity (thousandths):
\* the multiplier in tenths.
MoodMultiplier(sim) ==
    IF sim < 150 THEN 4
    ELSE IF sim < 250 THEN 7
    ELSE IF sim > 400 THEN 11
    ELSE 10

\* MoodGate testing `mood is not None` instead of the truth of mood.
MoodGateNotNone(mood, moodSim) ==
    IF mood.given
      THEN [multiplier |-> MoodMultiplier(moodSim), similarity |-> moodSim, calls |-> 2]
      ELSE [multiplier |-> 10, similarity |-> 0, calls |-> 0]

\* The mood gate: multiplier, measured similarity and the encode calls it
\* makes (items_text and mood).  moodSim is what util.cos_sim returns.
MoodGate(mood, moodSim) ==
    IF Truthy(mood)
      THEN [multiplier |-> MoodMultiplier(moodSim), similarity |-> moodSim, calls |-> 2]
      ELSE [multiplier |-> 10, similarity |-> 0, calls |-> 0]

\* points of one hit: int(relevance * 10) above the threshold, else 0.
Points(relevance) ==
    IF relevance > RelevanceThreshold THEN relevance \div 10 ELSE 0

\* FuseLoop recording only the hits that cleared the threshold.
RECURSIVE FuseLoopOmitBelowThreshold(_, _, _)
FuseLoopOmitBelowThreshold(hits, i, acc) ==
    IF i > Len(hits) THEN acc
    ELSE LET relevance == hits[i].score
             points == Points(relevance)
         IN  FuseLoopOmitBelowThreshold(hits, i + 1,
                 IF relevance > RelevanceThreshold
                   THEN [total_score |-> acc.total_score + points,
                         breakdown |-> Append(acc.breakdown,
                                          [criterion |-> "Rule Relevance",
                                           score |-> points,
                                           rule_citation |-> hits[i].payload.text,
                                           similarity |-> relevance])]
                   ELSE acc)

\* The `for hit in hits` loop from hit i on: acc = [total_score, breakdown].
RECURSIVE FuseLoop(_, _, _)
FuseLoop(hits, i, acc) ==
    IF i > Len(hits) THEN acc
    ELSE LET relevance == hits[i].score
             points == Points(relevance)
         IN  FuseLoop(hits, i + 1,
                 [total_score |-> acc.total_score + points,
                  breakdown |-> Append(acc.breakdown,
                                   [criterion |-> "Rule Relevance",
                                    score |-> points,
                                    rule_citation |-> hits[i].payload.text,
                                    similarity |-> relevance])])

\* int(final_score * mood_penalty_multiplier) in IEEE-754 double arithmetic.
\* For scores 0..100 and the multipliers 0.4, 0.7, 1.1 the product truncates
\* to the exact quotient, except 90 * 0.7 = 62.99999999999999, which gives 62.
MulTrunc(score, multiplier) ==
    IF multiplier = 7 /\ score = 90 THEN 62
    ELSE (score * multiplier) \div 10

\* FinalScore without the clamp after the multiplication.
FinalScoreNoClamp(total_score, multiplier) ==
    LET capped == Min(ScoreCap, total_score)
    IN  IF multiplier # 10 THEN MulTrunc(capped, multiplier) ELSE capped

\* FinalScore with the multiplier applied before the cap.
FinalScoreMulBeforeCap(total_score, multiplier) ==
    IF multiplier # 10
      THEN Min(ScoreCap, Max(1, MulTrunc(total_score, multiplier)))
      ELSE Min(ScoreCap, total_score)

\* final_score: the cap, then the mood penalty/boost and the clamp.
FinalScore(total_score, multiplier) ==
    LET capped == Min(ScoreCap, total_score)
    IN  IF multiplier # 10
          THEN Min(ScoreCap, Max(1, MulTrunc(capped, multiplier)))
          ELSE capped

\* Fmt2 cutting the third decimal off instead of rounding.
Fmt2Truncate(sim) ==
    LET a == (IF sim < 0 THEN -sim ELSE sim) \div 10
    IN  (IF sim < 0 THEN "-" ELSE "") \o ToString(a \div 100) \o "."
        \o ToString((a % 100) \div 10) \o ToString(a % 10)

\* f"{x:.2f}" of a similarity kept in thousandths: rounded to the nearest
\* hundredth, an exact half to the even one; the sign is kept.
Fmt2(sim) ==
    LET m == IF sim < 0 THEN -sim ELSE sim
        q == m \div 10
        r == m % 10
        a == IF r > 5 \/ (r = 5 /\ q % 2 = 1) THEN q + 1 ELSE q
    IN  (IF sim < 0 THEN "-" ELSE "") \o ToString(a \div 100) \o "."
        \o ToString((a % 100) \div 10) \o ToString(a % 10)

Critique(hits, multiplier, mood, moodSim) ==
    LET top == IF hits # <<>> THEN hits[1].payload.text ELSE "None"
        base == "Analyzed against semantically relevant rules. Top match: " \o top \o "."
    IN  IF multiplier < 8
          THEN base \o " WARNING: Significant mismatch detected with occasion '"
                    \o mood.text \o "' (Sim: " \o Fmt2(moodSim) \o ")."
        ELSE IF multiplier > 10
          THEN base \o " Great fit for occasion '" \o mood.text \o "'!"
        ELSE base

\* Everything after the search: the score, the breakdown and the critique
\* of the hits, under the mood gate's verdict.
Fusion(hits, mood, moodSim) ==
    LET gate == MoodGate(mood, moodSim)
        acc == FuseLoop(hits, 1, [total_score |-> BaseScore, breakdown |-> <<>>])
    IN  [status |-> "ok", cause |-> "",
         total_score |-> FinalScore(acc.total_score, gate.multiplier),
         breakdown |-> acc.breakdown,
         critique |-> Critique(hits, gate.multiplier, mood, gate.similarity),
         encodeCalls |-> 1 + gate.calls,
         gateCalls |-> gate.calls,
         hits |-> hits, mood |-> mood, moodSim |-> gate.similarity,
         multiplier |-> gate.multiplier,
         http |-> 0, up |-> TRUE, encodeOk |-> TRUE, queryOk |-> TRUE]

Raised(cause) == [NoResult EXCEPT !.status = "raised", !.cause = cause]

(***************************************************************************)
(* client.query_points: the `limit` points of highest cosine similarity,   *)
(* best first.  sims gives the similarity of the query vector to each      *)
(* stored vector; equal similarities are listed by ascending id.           *)
(***************************************************************************)
Vectors(idx) == {p.vector : p \in idx}

\* QueryPoints ranking by distance read as similarity: the farthest first.
RECURSIVE QueryPointsFarthestFirst(_, _, _)
QueryPointsFarthestFirst(idx, sims, limit) ==
    IF limit = 0 \/ idx = {} THEN <<>>
    ELSE LET best == CHOOSE p \in idx : \A q \in idx :
                        \/ sims[p.vector] < sims[q.vector]
                        \/ sims[p.vector] = sims[q.vector] /\ p.id <= q.id
         IN  <<[id |-> best.id, score |-> sims[best.vector], payload |-> best.payload]>>
             \o QueryPointsFarthestFirst(idx \ {best}, sims, limit - 1)

RECURSIVE QueryPoints(_, _, _)
QueryPoints(idx, sims, limit) ==
    IF limit = 0 \/ idx = {} THEN <<>>
    ELSE LET best == CHOOSE p \in idx : \A q \in idx :
                        \/ sims[p.vector] > sims[q.vector]
                        \/ sims[p.vector] = sims[q.vector] /\ p.id <= q.id
         IN  <<[id |-> best.id, score |-> sims[best.vector], payload |-> best.payload]>>
             \o QueryPoints(idx \ {best}, sims, limit - 1)

\* The requests of the service model, told apart by the similarities the
\* embedding of their query text has to the stored vectors: nothing is
\* relevant, everything is highly relevant, or one fragment stands out.
QueryProfiles(idx) ==
    { [v \in Vectors(idx) |-> s] : s \in {10, 95} }
    \cup { [v \in Vectors(idx) |-> IF v = h THEN 95 ELSE 31] : h \in Vectors(idx) }

Moods == { NoMood, [given |-> TRUE, text |-> ""], [given |-> TRUE, text |-> "formal gala"] }

\* Outfit/mood similarities of the service model: one per multiplier; no
\* similarity is measured for a falsy mood.
MoodSims(mood) == IF Truthy(mood) THEN {100, 200, 300, 450} ELSE {0}

\* The /vector-score endpoint around the handler: an exception becomes
\* HTTP 500, a returned result is sent as {"status": "success", "data": ...}.
ScoreOutfitVector(r) ==
    [r EXCEPT !.http = IF r.status = "raised" THEN 500 ELSE 200]

\* ScoreOutcome with the search wrapped like the retrieve_* searches: a
\* failed query is caught and scored as no hits.
ScoreOutcomeQueryCaught(mood, moodSim, sims, encodeOk, queryOk) ==
    IF ~model THEN Raised("model unset")
    ELSE IF ~encodeOk THEN Raised("encode")
    ELSE IF ~client THEN Raised("client unset")
    ELSE IF ~collectionExists THEN Raised("no collection")
    ELSE IF ~queryOk THEN Fusion(<<>>, mood, moodSim)
    ELSE Fusion(QueryPoints(index, sims, QueryLimit), mood, moodSim)

\* The handler body.  encodeOk: the model.encode calls answer; queryOk:
\* client.query_points answers.  Nothing is caught: what fails raises.
ScoreOutcome(mood, moodSim, sims, encodeOk, queryOk) ==
    IF ~model THEN Raised("model unset")
    ELSE IF ~encodeOk THEN Raised("encode")
    ELSE IF ~client THEN Raised("client unset")
    ELSE IF ~collectionExists THEN Raised("no collection")
    ELSE IF ~queryOk THEN Raised("query")
    ELSE Fusion(QueryPoints(index, sims, QueryLimit), mood, moodSim)

\* The whole handler, as the endpoint answers it.
Score(mood, moodSim, sims, encodeOk, queryOk) ==
    /\ result' = ScoreOutfitVector(
                     [ScoreOutcome(mood, moodSim, sims, encodeOk, queryOk)
                        EXCEPT !.up = client /\ model,
                               !.encodeOk = encodeOk, !.queryOk = queryOk])
    /\ retrieved' = NoRetrieval
    /\ UNCHANGED <<corpus, client, model, collectionExists, index, lastInit, running>>
    /\ UNCHANGED <<retry, rules_cache, wardrobe>>

ScoreOutfitSemantic(mood, moodSim, sims, encodeOk, queryOk) ==
    /\ ~StartupFailed
    /\ Score(mood, moodSim, sims, encodeOk, queryOk)
    /\ UNCHANGED fin

(***************************************************************************)
(* retrieve_relevant_rules and retrieve_from_source: the context strings   *)
(* the LLM prompts of the style and colour analyses are built from.        *)
(***************************************************************************)
\* The `for i, hit in enumerate(hits)` loop of retrieve_relevant_rules from
\* hit i on.  The source spells the line end \\n inside the f-string: a
\* backslash and an n.
RECURSIVE RulesContext(_, _)
RulesContext(hits, i) ==
    IF i > Len(hits) THEN ""
    ELSE "Rule " \o ToString(i) \o " (Source: " \o hits[i].payload.source
         \o "): " \o hits[i].payload.text \o "\\n" \o RulesContext(hits, i + 1)

\* The `for hit in hits` loop of retrieve_from_source from hit i on.
RECURSIVE SourceContext(_, _)
SourceContext(hits, i) ==
    IF i > Len(hits) THEN ""
    ELSE "- " \o hits[i].payload.text \o "\\n" \o SourceContext(hits, i + 1)

\* query_filter: must(source == source_filename).
SourceFilter(idx, source_filename) ==
    {p \in idx : p.payload.source = source_filename}

\* What a retrieve_* call hands back: a string, or an exception.
Returned(value, hits, cause) ==
    [NoRetrieval EXCEPT !.status = "returned", !.value = value, !.hits = hits,
                        !.cause = cause]

RetrievalRaised(cause) == [NoRetrieval EXCEPT !.status = "raised", !.cause = cause]

\* RelevantRules with the context kept on the instance across calls.
RelevantRulesSharedContext(sims, limit, encodeOk, queryOk) ==
    IF ~client THEN Returned("", <<>>, "client unset")
    ELSE IF ~model THEN RetrievalRaised("model unset")
    ELSE IF ~encodeOk THEN RetrievalRaised("encode")
    ELSE IF ~collectionExists \/ ~queryOk
      THEN Returned("No specific rules retrieved.", <<>>, "query")
    ELSE LET hits == QueryPoints(index, sims, limit)
         IN  Returned(retrieved.value \o RulesContext(hits, 1), hits, "")

\* retrieve_relevant_rules: the client guard, the encode call outside the
\* try, the query and the formatting inside it.
RelevantRules(sims, limit, encodeOk, queryOk) ==
    IF ~client THEN Returned("", <<>>, "client unset")
    ELSE IF ~model THEN RetrievalRaised("model unset")
    ELSE IF ~encodeOk THEN RetrievalRaised("encode")
    ELSE IF ~collectionExists \/ ~queryOk
      THEN Returned("No specific rules retrieved.", <<>>, "query")
    ELSE LET hits == QueryPoints(index, sims, limit)
         IN  Returned(RulesContext(hits, 1), hits, "")

\* FromSource with the query_filter left out of the search.
FromSourceNoFilter(sims, source_filename, limit, encodeOk, queryOk) ==
    IF ~client THEN Returned("", <<>>, "client unset")
    ELSE IF ~model THEN RetrievalRaised("model unset")
    ELSE IF ~encodeOk THEN RetrievalRaised("encode")
    ELSE IF ~collectionExists \/ ~queryOk THEN Returned("", <<>>, "query")
    ELSE LET hits == QueryPoints(index, sims, limit)
         IN  Returned(SourceContext(hits, 1), hits, "")

\* retrieve_from_source: the same with the source filter and the empty
\* string for a failed query.
FromSource(sims, source_filename, limit, encodeOk, queryOk) ==
    IF ~client THEN Returned("", <<>>, "client unset")
    ELSE IF ~model THEN RetrievalRaised("model unset")
    ELSE IF ~encodeOk THEN RetrievalRaised("encode")
    ELSE IF ~collectionExists \/ ~queryOk THEN Returned("", <<>>, "query")
    ELSE LET hits == QueryPoints(SourceFilter(index, source_filename), sims, limit)
         IN  Returned(SourceContext(hits, 1), hits, "")

\* Retrieve constructing the client when it finds it unset.
RetrieveLazyClient(fn, sims, source_filename, limit, encodeOk, queryOk) ==
    /\ retrieved' =
         [(IF fn = "retrieve_relevant_rules"
             THEN RelevantRules(sims, limit, encodeOk, queryOk)
             ELSE FromSource(sims, source_filename, limit, encodeOk, queryOk))
           EXCEPT !.fn = fn, !.query = sims, !.source = source_filename,
                  !.limit = limit, !.up = client /\ model,
                  !.encodeOk = encodeOk, !.queryOk = queryOk]
    /\ result' = NoResult
    /\ client' = TRUE
    /\ UNCHANGED <<corpus, model, collectionExists, index, lastInit, running>>
    /\ UNCHANGED <<retry, rules_cache, wardrobe>>

\* The call as the state machine sees it: only the outcome is new.
Retrieve(fn, sims, source_filename, limit, encodeOk, queryOk) ==
    /\ retrieved' =
         [(IF fn = "retrieve_relevant_rules"
             THEN RelevantRules(sims, limit, encodeOk, queryOk)
             ELSE FromSource(sims, source_filename, limit, encodeOk, queryOk))
           EXCEPT !.fn = fn, !.query = sims, !.source = source_filename,
                  !.limit = limit, !.up = client /\ model,
                  !.encodeOk = encodeOk, !.queryOk = queryOk]
    /\ result' = NoResult
    /\ UNCHANGED <<corpus, client, model, collectionExists, index, lastInit, running>>
    /\ UNCHANGED <<retry, rules_cache, wardrobe>>

RetrieveRelevantRules(sims, limit, encodeOk, queryOk) ==
    /\ ~StartupFailed
    /\ Retrieve("retrieve_relevant_rules", sims, "", limit, encodeOk, queryOk)
    /\ UNCHANGED fin

RetrieveFromSource(sims, source_filename, limit, encodeOk, queryOk) ==
    /\ ~StartupFailed
    /\ Retrieve("retrieve_from_source", sims, source_filename, limit, encodeOk, queryOk)
    /\ UNCHANGED fin

\* The calls of the analyses: analyze_outfit asks for 5 rules and for 3
\* fragments of the colour dictionary, the colour analysis for 10.
RulesLimit == 5
StyleSourceLimit == 3
ColorSourceLimit == 10

\* The source filenames asked for: files of the corpus and one that is not.
SourceNames == {"colors.json", "formulas.json", "dictionary_of_colour_combinations.json"}

(***************************************************************************)
(* The fusion specification: the service has ingested one rule book of n   *)
(* string rules and answers one request, of any similarities to the n      *)
(* fragments, any mood and any outfit/mood similarity.                     *)
(***************************************************************************)
FusionSims == {-20, 0, 30, 31, 40, 60, 85, 100}

FusionMoodSims == {-54, 100, 146, 150, 200, 249, 250, 300, 400, 401, 453}

RuleBook(n) ==
    [name |-> "rules.json", readable |-> TRUE,
     data |-> JList([i \in 1..n |-> JStr("rule " \o ToString(i))])]

\* The similarities of a request to fragments 1..n; fragments are numbered
\* by descending similarity, which loses no hit list.
RankedSims ==
    UNION { { s \in [1..n -> FusionSims] : \A i \in 1..(n - 1) : s[i] >= s[i + 1] }
            : n \in 0..MaxRules }

FusionInputs ==
    { [sims |-> s, mood |-> m, moodSim |-> ms, done |-> FALSE] :
        s \in RankedSims, m \in Moods, ms \in FusionMoodSims }

\* sims as query_points sees it: by stored vector.
SimsByVector(idx, s) ==
    [v \in Vectors(idx) |-> s[(CHOOSE p \in idx : p.vector = v).id + 1]]

Fuse ==
    /\ ~fin.done
    /\ Score(fin.mood, fin.moodSim, SimsByVector(index, fin.sims), TRUE, TRUE)
    /\ fin' = [fin EXCEPT !.done = TRUE]

Init ==
    /\ corpus \in Corpora
    /\ client = FALSE
    /\ model = FALSE
    /\ collectionExists = FALSE
    /\ index = {}
    /\ lastInit = NoInit
    /\ result = NoResult
    /\ retrieved = NoRetrieval
    /\ running = NoCalls
    /\ retry = NoRetry
    /\ rules_cache = NoRules
    /\ wardrobe = NoWardrobe
    /\ fin = NoFusion

\* What a request can meet: every call answers, or an encode call raises,
\* or the index query raises.
Faults ==
    { [encodeOk |-> TRUE, queryOk |-> TRUE], [encodeOk |-> FALSE, queryOk |-> TRUE],
      [encodeOk |-> TRUE, queryOk |-> FALSE] }

\* What an initialize() call can meet: the ingest runs, and so the encode
\* calls and the upsert can fail, only when the collection is created.
IngestFailChoices ==
    IF collectionExists THEN {[i \in 1..Len(corpus) |-> 0]} ELSE FailChoices(corpus)

UpsertChoices == IF collectionExists THEN {TRUE} ELSE BOOLEAN

Next ==
    \/ \E failAt \in IngestFailChoices, upsertOk \in UpsertChoices :
            Initialize(failAt, upsertOk)
    \/ Restart
    \/ \E mood \in Moods, sims \in QueryProfiles(index),
          faults \in Faults : \E moodSim \in MoodSims(mood) :
            /\ (~faults.encodeOk \/ ~faults.queryOk) =>
                  (mood = NoMood /\ sims = [v \in Vectors(index) |-> 10])
            /\ ScoreOutfitSemantic(mood, moodSim, sims,
                                   faults.encodeOk, faults.queryOk)
    \/ \E sims \in {[v \in Vectors(index) |-> 95]}, faults \in Faults :
            RetrieveRelevantRules(sims, RulesLimit, faults.encodeOk, faults.queryOk)
    \/ \E sims \in {[v \in Vectors(index) |-> 95]}, faults \in Faults,
          source_filename \in {"colors.json", "dictionary_of_colour_combinations.json"} :
            RetrieveFromSource(sims, source_filename, StyleSourceLimit,
                               faults.encodeOk, faults.queryOk)

Spec == Init /\ [][Next]_vars

\* The state initialize() leaves over the rule book, and the request.
InitFusion ==
    /\ fin \in FusionInputs
    /\ corpus = <<RuleBook(Len(fin.sims))>>
    /\ client = TRUE
    /\ model = TRUE
    /\ collectionExists = TRUE
    /\ LET r == IngestRules({}, corpus, <<0>>, TRUE)
       IN  /\ index = r.index
           /\ lastInit = [ran |-> TRUE, existed |-> FALSE, created |-> TRUE,
                          upsertCalls |-> r.upsertCalls, points |-> r.points,
                          raised |-> r.raised, logged |-> r.logged,
                          readFailed |-> r.readFailed,
                          embedFailed |-> r.embedFailed, failAt |-> <<0>>,
                          upsertOk |-> TRUE, indexBefore |-> {}]
    /\ result = NoResult
    /\ retrieved = NoRetrieval
    /\ running = NoCalls
    /\ retry = NoRetry
    /\ rules_cache = NoRules
    /\ wardrobe = NoWardrobe

NextFusion == Fuse

SpecFusion == InitFusion /\ [][NextFusion]_vars

(***************************************************************************)
(* The retrieval specification: the collection holds the ingested corpus,  *)
(* the service is initialized or a fresh instance, and one request, of any *)
(* similarities, source filter, limit and fault, is made once and again,   *)
(* with other requests in between.                                         *)
(***************************************************************************)
Limits == {StyleSourceLimit, RulesLimit, ColorSourceLimit}

\* Similarities that fall as the ids fall: the newest fragment is nearest.
Graded(idx) ==
    [v \in Vectors(idx) |-> 20 + 10 * (CHOOSE p \in idx : p.vector = v).id]

RetrievalSims(idx) ==
    [Vectors(idx) -> {10, 95}] \cup QueryProfiles(idx) \cup {Graded(idx)}

Flat(idx) == [v \in Vectors(idx) |-> 95]

NoRequest ==
    [fn |-> "", sims |-> <<>>, source |-> "", limit |-> 0, mood |-> NoMood,
     moodSim |-> 0, encodeOk |-> TRUE, queryOk |-> TRUE]

NoReplay ==
    [req |-> NoRequest, runs |-> 0, first |-> NoRetrieval, between |-> FALSE,
     last |-> ""]

\* The requests: every similarity profile when all calls answer, one
\* profile for each fault.
Requests(idx) ==
    UNION { LET ok == f.encodeOk /\ f.queryOk
                base == [NoRequest EXCEPT !.encodeOk = f.encodeOk,
                                          !.queryOk = f.queryOk]
            IN  { [base EXCEPT !.fn = "retrieve_relevant_rules", !.sims = s,
                               !.limit = l] :
                    s \in (IF ok THEN RetrievalSims(idx) ELSE {Flat(idx)}),
                    l \in Limits }
                \cup
                { [base EXCEPT !.fn = "retrieve_from_source", !.sims = s,
                               !.source = n, !.limit = l] :
                    s \in (IF ok THEN RetrievalSims(idx) ELSE {Flat(idx)}),
                    n \in SourceNames, l \in Limits }
                \cup
                UNION { { [base EXCEPT !.fn = "score_outfit_semantic", !.sims = s,
                                       !.mood = m, !.moodSim = ms] :
                            s \in (IF ok THEN QueryProfiles(idx) ELSE {Flat(idx)}),
                            ms \in MoodSims(m) } : m \in Moods }
            : f \in Faults }

\* One request through its handler.
Handle(req) ==
    IF req.fn = "score_outfit_semantic"
      THEN Score(req.mood, req.moodSim, req.sims, req.encodeOk, req.queryOk)
      ELSE Retrieve(req.fn, req.sims, req.source, req.limit, req.encodeOk, req.queryOk)

\* What the last call of the request's function handed back.
Outcome(req) == IF req.fn = "score_outfit_semantic" THEN result ELSE retrieved

\* The request of the specification is made, for the first time or again.
Request ==
    /\ fin.runs < 2
    /\ Handle(fin.req)
    /\ fin' = [fin EXCEPT !.runs = @ + 1,
                          !.first = IF fin.runs # 0 THEN @
                                    ELSE IF fin.req.fn = "score_outfit_semantic"
                                      THEN result' ELSE retrieved',
                          !.last = "request"]

\* Another request is made after the first run of the specification's.
OtherRequest ==
    /\ fin.runs = 1
    /\ \E req \in { [NoRequest EXCEPT !.fn = "score_outfit_semantic",
                                      !.sims = Flat(index)],
                    [NoRequest EXCEPT !.fn = "retrieve_relevant_rules",
                                      !.sims = Flat(index), !.limit = RulesLimit],
                    [NoRequest EXCEPT !.fn = "retrieve_from_source",
                                      !.sims = Flat(index), !.source = "colors.json",
                                      !.limit = ColorSourceLimit] } :
          Handle(req)
    /\ fin' = [fin EXCEPT !.between = TRUE, !.last = "other"]

\* The state an earlier initialize() left on disk, the service initialized
\* over it or fresh, and the request.
InitRetrieval ==
    /\ corpus \in Corpora
    /\ client \in BOOLEAN
    /\ model = client
    /\ collectionExists = TRUE
    /\ LET none == [i \in 1..Len(corpus) |-> 0]
           r == IngestRules({}, corpus, none, TRUE)
       IN  /\ index = r.index
           /\ lastInit = IF client
                           THEN [NoInit EXCEPT !.ran = TRUE, !.existed = TRUE,
                                               !.indexBefore = r.index]
                           ELSE NoInit
    /\ result = NoResult
    /\ retrieved = NoRetrieval
    /\ running = NoCalls
    /\ retry = NoRetry
    /\ rules_cache = NoRules
    /\ wardrobe = NoWardrobe
    /\ \E req \in Requests(index) :
          /\ ~client => (req.sims = Flat(index) /\ req.encodeOk /\ req.queryOk)
          /\ fin = [NoReplay EXCEPT !.req = req]

NextRetrieval == Request \/ OtherRequest

SpecRetrieval == InitRetrieval /\ [][NextRetrieval]_vars

(***************************************************************************)
(* The concurrent-initialization specification: NumThreads threads call    *)
(* initialize() on the one shared service of get_vector_service(), each    *)
(* statement of initialize() and init_collection() a step of its own.      *)
(* running.pc is where each thread stands, running.calls how often the     *)
(* constructors, create_collection and ingest_rules have been called.      *)
(***************************************************************************)
Threads == 1..NumThreads

NoneBuilt == [client |-> 0, model |-> 0, create_collection |-> 0, ingest_rules |-> 0]

Goto(t, pc) == [running EXCEPT !.pc[t] = pc]

Called(r, what) == [r EXCEPT !.calls[what] = @ + 1]

\* `if not self.client:`
CheckClient(t) ==
    /\ running.pc[t] = "initialize"
    /\ running' = Goto(t, IF client THEN "check model" ELSE "QdrantClient")
    /\ UNCHANGED <<corpus, client, model, collectionExists, index, lastInit,
                   result, retrieved, fin>>
    /\ UNCHANGED <<retry, rules_cache, wardrobe>>

\* `self.client = QdrantClient(path="qdrant_db")`: over a folder another
\* client holds the constructor answers or raises.
ConstructClient(t, ok) ==
    /\ running.pc[t] = "QdrantClient"
    /\ (~ok) => client
    /\ client' = TRUE
    /\ running' = Called(Goto(t, IF ok THEN "check model" ELSE "raised"), "client")
    /\ UNCHANGED <<corpus, model, collectionExists, index, lastInit,
                   result, retrieved, fin>>
    /\ UNCHANGED <<retry, rules_cache, wardrobe>>

\* `if not self.model:`
CheckModel(t) ==
    /\ running.pc[t] = "check model"
    /\ running' = Goto(t, IF model THEN "get_collections" ELSE "SentenceTransformer")
    /\ UNCHANGED <<corpus, client, model, collectionExists, index, lastInit,
                   result, retrieved, fin>>
    /\ UNCHANGED <<retry, rules_cache, wardrobe>>

\* `self.model = SentenceTransformer('all-MiniLM-L6-v2')`
LoadModel(t) ==
    /\ running.pc[t] = "SentenceTransformer"
    /\ model' = TRUE
    /\ running' = Called(Goto(t, "get_collections"), "model")
    /\ UNCHANGED <<corpus, client, collectionExists, index, lastInit,
                   result, retrieved, fin>>
    /\ UNCHANGED <<retry, rules_cache, wardrobe>>

\* `collections = self.client.get_collections()`, `exists = any(...)`,
\* `if not exists:`
GetCollections(t) ==
    /\ running.pc[t] = "get_collections"
    /\ running' = Goto(t, IF collectionExists THEN "done" ELSE "create_collection")
    /\ UNCHANGED <<corpus, client, model, collectionExists, index, lastInit,
                   result, retrieved, fin>>
    /\ UNCHANGED <<retry, rules_cache, wardrobe>>

\* `self.client.create_collection(...)`: over a collection that came to
\* exist since the check the call raises or answers.
CreateCollection(t, ok) ==
    /\ running.pc[t] = "create_collection"
    /\ (~ok) => collectionExists
    /\ collectionExists' = TRUE
    /\ running' = Called(Goto(t, IF ok THEN "ingest_rules" ELSE "raised"),
                         "create_collection")
    /\ UNCHANGED <<corpus, client, model, index, lastInit, result, retrieved, fin>>
    /\ UNCHANGED <<retry, rules_cache, wardrobe>>

\* `self.ingest_rules()`
RunIngestRules(t) ==
    /\ running.pc[t] = "ingest_rules"
    /\ index' = IngestRules(index, corpus, [i \in 1..Len(corpus) |-> 0], TRUE).index
    /\ running' = Called(Goto(t, "done"), "ingest_rules")
    /\ UNCHANGED <<corpus, client, model, collectionExists, lastInit,
                   result, retrieved, fin>>
    /\ UNCHANGED <<retry, rules_cache, wardrobe>>

\* A fresh process over a qdrant_db with or without the collection, and the
\* threads about to call initialize().
InitConcurrent ==
    /\ corpus \in Corpora
    /\ client = FALSE
    /\ model = FALSE
    /\ collectionExists \in BOOLEAN
    /\ index = IF collectionExists
                 THEN IngestRules({}, corpus, [i \in 1..Len(corpus) |-> 0], TRUE).index
                 ELSE {}
    /\ lastInit = NoInit
    /\ result = NoResult
    /\ retrieved = NoRetrieval
    /\ running = [pc |-> [t \in Threads |-> "initialize"], calls |-> NoneBuilt]
    /\ retry = NoRetry
    /\ rules_cache = NoRules
    /\ wardrobe = NoWardrobe
    /\ fin = NoFusion

NextConcurrent ==
    \E t \in Threads :
        \/ CheckClient(t)
        \/ \E ok \in BOOLEAN : ConstructClient(t, ok)
        \/ CheckModel(t)
        \/ LoadModel(t)
        \/ GetCollections(t)
        \/ \E ok \in BOOLEAN : CreateCollection(t, ok)
        \/ RunIngestRules(t)

SpecConcurrent == InitConcurrent /\ [][NextConcurrent]_vars

(***************************************************************************)
(* The flattener specification: _flatten_json is run over one JSON value,  *)
(* once and again, with runs over other documents in between.  fin.out is  *)
(* the list the last run returned.                                         *)
(***************************************************************************)
Scalars == {JStr("x"), JStr(""), JInt(2), JBool(FALSE), JNull}

\* What the root's members are: scalars, empty containers, lists of equal
\* strings and of mixed elements, nested objects.
Members ==
    Scalars \cup
    { JList(<<>>), JDict(<<>>, <<>>),
      JList(<<JStr("x"), JStr("x")>>),
      JList(<<JInt(2), JStr("x")>>),
      JDict(<<"k">>, <<JStr("x")>>),
      JDict(<<"k">>, <<JList(<<JNull, JList(<<>>)>>)>>) }

MemberKeys == <<"a", "b", "c", "d">>

JsonDocs ==
    Members
    \cup UNION { { JList(items) : items \in [1..n -> Members] } : n \in 1..MaxWidth }
    \cup UNION { { JDict(SubSeq(MemberKeys, 1, n), items) : items \in [1..n -> Members] }
                 : n \in 1..MaxWidth }

NoFlatten ==
    [doc |-> JNull, runs |-> 0, first |-> <<>>, out |-> <<>>, between |-> FALSE,
     last |-> ""]

\* _flatten_json over the document of the specification.
FlattenDoc ==
    /\ fin.runs < 2
    /\ LET out == FlattenJson(fin.doc)
       IN  fin' = [fin EXCEPT !.runs = @ + 1, !.out = out,
                              !.first = IF fin.runs = 0 THEN out ELSE @,
                              !.last = "doc"]
    /\ UNCHANGED <<corpus, client, model, collectionExists, index, lastInit,
                   result, retrieved, running>>
    /\ UNCHANGED <<retry, rules_cache, wardrobe>>

\* _flatten_json over another document, as ingest_rules runs it file by file.
FlattenOther ==
    /\ fin.runs = 1
    /\ \E other \in {ColorsJson, FormulasJson} :
          fin' = [fin EXCEPT !.out = FlattenJson(other), !.between = TRUE,
                             !.last = "other"]
    /\ UNCHANGED <<corpus, client, model, collectionExists, index, lastInit,
                   result, retrieved, running>>
    /\ UNCHANGED <<retry, rules_cache, wardrobe>>

InitFlatten ==
    /\ corpus = <<>>
    /\ client = FALSE
    /\ model = FALSE
    /\ collectionExists = FALSE
    /\ index = {}
    /\ lastInit = NoInit
    /\ result = NoResult
    /\ retrieved = NoRetrieval
    /\ running = NoCalls
    /\ retry = NoRetry
    /\ rules_cache = NoRules
    /\ wardrobe = NoWardrobe
    /\ \E doc \in JsonDocs : fin = [NoFlatten EXCEPT !.doc = doc]

NextFlatten == FlattenDoc \/ FlattenOther

SpecFlatten == InitFlatten /\ [][NextFlatten]_vars

(***************************************************************************)
(* RuleBasedScoringService: the rule-based score of an outfit against the  *)
(* cached rule books.  Strings are handled as Python handles them.         *)
(***************************************************************************)
\* Python's `sub in s` on strings.
InStr(sub, s) ==
    \E i \in 1..(Len(s) - Len(sub) + 1) : SubSeq(s, i, i + Len(sub) - 1) = sub

\* The lower-case letter of every upper-case one.
LowerCase ==
    [A |-> "a", B |-> "b", C |-> "c", D |-> "d", E |-> "e", F |-> "f", G |-> "g",
     H |-> "h", I |-> "i", J |-> "j", K |-> "k", L |-> "l", M |-> "m", N |-> "n",
     O |-> "o", P |-> "p", Q |-> "q", R |-> "r", S |-> "s", T |-> "t", U |-> "u",
     V |-> "v", W |-> "w", X |-> "x", Y |-> "y", Z |-> "z"]

\* str.lower()
RECURSIVE Lower(_)
Lower(s) ==
    IF s = "" THEN ""
    ELSE LET c == SubSeq(s, 1, 1)
         IN  (IF c \in DOMAIN LowerCase THEN LowerCase[c] ELSE c)
             \o Lower(SubSeq(s, 2, Len(s)))

\* str.strip(): the blanks at both ends go.
RECURSIVE Strip(_)
Strip(s) ==
    IF s = "" THEN ""
    ELSE IF SubSeq(s, 1, 1) = " " THEN Strip(SubSeq(s, 2, Len(s)))
    ELSE IF SubSeq(s, Len(s), Len(s)) = " " THEN Strip(SubSeq(s, 1, Len(s) - 1))
    ELSE s

\* str.replace(old, new) for a one-character old.
RECURSIVE Replace(_, _, _)
Replace(s, old, new) ==
    IF s = "" THEN ""
    ELSE (IF SubSeq(s, 1, 1) = old THEN new ELSE SubSeq(s, 1, 1))
         \o Replace(SubSeq(s, 2, Len(s)), old, new)

\* str.split(): the set of the blank-separated words of s; `word` is the
\* word being read.
RECURSIVE Split(_, _)
Split(s, word) ==
    IF s = "" THEN (IF word = "" THEN {} ELSE {word})
    ELSE IF SubSeq(s, 1, 1) = " "
         THEN (IF word = "" THEN {} ELSE {word}) \cup Split(SubSeq(s, 2, Len(s)), "")
         ELSE Split(SubSeq(s, 2, Len(s)), word \o SubSeq(s, 1, 1))

\* s.lower().strip().replace("-", " ")
normalize_string(s) == Replace(Strip(Lower(s)), "-", " ")

\* An optional string: None, or a text.
None == [given |-> FALSE, text |-> ""]

Some(s) == [given |-> TRUE, text |-> s]

\* `if x:` for an optional string.
Given(x) == x.given /\ x.text # ""

\* An item of the request, as WardrobeItemMetadata.dict() gives it;
\* NoItem is None.
Item(general, specific, custom, tags, colors) ==
    [given |-> TRUE, general_category |-> Some(general), specific_category |-> specific,
     custom_category |-> custom, tags |-> tags, colors |-> colors]

NoItem ==
    [given |-> FALSE, general_category |-> None, specific_category |-> None,
     custom_category |-> None, tags |-> None, colors |-> <<>>]

\* current_outfit_descriptors: the normalised categories of the items.
Descriptors(items) ==
    {normalize_string(x.text) :
        x \in {y \in UNION {{i.custom_category, i.specific_category, i.general_category} :
                               i \in items} : Given(y)}}

\* matched_count: the components of the formula that are part of, or hold,
\* a descriptor of the outfit.
RECURSIVE MatchedCount(_, _)
MatchedCount(components, descriptors) ==
    IF components = <<>> THEN 0
    ELSE (IF \E d \in descriptors :
                \/ InStr(normalize_string(Head(components)), d)
                \/ InStr(d, normalize_string(Head(components)))
          THEN 1 ELSE 0)
         + MatchedCount(Tail(components), descriptors)

\* The loop over the formulas: the matches, in the order of the list.
RECURSIVE FormulaMatches(_, _)
FormulaMatches(formulas, descriptors) ==
    IF formulas = <<>> THEN <<>>
    ELSE LET f == Head(formulas)
             n == MatchedCount(f.components, descriptors)
             rest == FormulaMatches(Tail(formulas), descriptors)
         IN  IF n >= Len(f.components) - 1 /\ Len(f.components) > 1
             THEN <<"Matched '" \o f.formula_name \o "' (" \o ToString(n) \o "/"
                    \o ToString(Len(f.components)) \o " items)">> \o rest
             ELSE rest

\* The formulas a check runs over and the cache it leaves behind.
\* `formulas` is the outfit_formulas list of the_curated_closet.json when
\* the cache holds one, a new empty list otherwise; the formulas of
\* the_little_dictionary_of_fashion.json are appended to it by
\* formulas.extend, which changes the cached list itself.
CheckedFormulas(cache) ==
    LET own == IF cache.curated.has THEN cache.curated.outfit_formulas ELSE <<>>
        all == own \o (IF cache.dior.has THEN cache.dior.outfit_formulas ELSE <<>>)
    IN  [formulas |-> all,
         cache |-> IF cache.curated.has
                   THEN [cache EXCEPT !.curated.outfit_formulas = all]
                   ELSE cache]

FormulaBoost == 20

FormulaCap == 30

\* check_outfit_formulas: (min(score, 30), matches) and the cache it leaves.
check_outfit_formulas(cache, items) ==
    LET checked == CheckedFormulas(cache)
        matches == FormulaMatches(checked.formulas, Descriptors(items))
        score == FormulaBoost * Len(matches)
    IN  [score |-> IF score < FormulaCap THEN score ELSE FormulaCap,
         matches |-> matches, cache |-> checked.cache]

\* check_color_harmony: the score by the number of distinct lower-cased
\* colours of the items.
check_color_harmony(items) ==
    LET unique_colors ==
            UNION {{Lower(i.colors[k]) : k \in 1..Len(i.colors)} : i \in items}
        count == Cardinality(unique_colors)
        neutrals == {"white", "black", "grey", "gray", "navy", "beige", "cream",
                     "denim", "blue"}
    IN  IF count = 0 THEN 5
        ELSE IF count = 1 THEN 9
        ELSE IF count = 2 THEN 8
        ELSE IF count = 3 THEN 7
        ELSE IF count > 4 THEN 4
        ELSE IF \E c \in unique_colors : \E n \in neutrals : InStr(n, c) THEN 8
        ELSE 6

\* keyword_weights, in tenths: the affinity of a keyword with a mood.
keyword_weights ==
    [sequin |-> [party |-> 10, casual |-> -8, office |-> -5, gym |-> -10],
     silk |-> [party |-> 7, office |-> 6, date |-> 8, casual |-> -2, gym |-> -8],
     satin |-> [party |-> 8, date |-> 8, office |-> 4, casual |-> -3],
     velvet |-> [party |-> 8, date |-> 7, casual |-> 2, summer |-> -5],
     cotton |-> [casual |-> 8, office |-> 4, party |-> -3, gym |-> 5],
     denim |-> [casual |-> 9, office |-> -4, party |-> -2, date |-> 3, gym |-> -6],
     leather |-> [party |-> 7, date |-> 7, casual |-> 5, office |-> -2],
     spandex |-> [gym |-> 10, casual |-> 4, party |-> -8, office |-> -9],
     nylon |-> [gym |-> 9, casual |-> 6],
     linen |-> [casual |-> 8, summer |-> 10, office |-> 3, party |-> -2],
     gown |-> [party |-> 10, formal |-> 10, casual |-> -10, office |-> -8],
     dress |-> [party |-> 6, date |-> 8, office |-> 5, casual |-> 4],
     blazer |-> [office |-> 10, party |-> 4, date |-> 5, casual |-> -3],
     suit |-> [office |-> 10, formal |-> 10, party |-> 3, casual |-> -9],
     hoodie |-> [casual |-> 9, gym |-> 7, office |-> -9, party |-> -8, date |-> -6],
     sweatpants |-> [casual |-> 10, gym |-> 8, office |-> -10, party |-> -10, date |-> -9],
     jeans |-> [casual |-> 9, date |-> 4, party |-> 2, office |-> -4],
     leggings |-> [gym |-> 10, casual |-> 7, office |-> -8, party |-> -7],
     heels |-> [party |-> 9, date |-> 9, office |-> 6, casual |-> -4, gym |-> -10],
     sneakers |-> [casual |-> 9, gym |-> 9, office |-> -6, party |-> -5, date |-> -3],
     boots |-> [casual |-> 7, date |-> 6, office |-> 4, party |-> 4],
     loafers |-> [office |-> 8, casual |-> 5, date |-> 4, party |-> -2],
     formal |-> [party |-> 5, office |-> 9],
     casual |-> [casual |-> 10, office |-> -5],
     embellished |-> [party |-> 9, date |-> 6, office |-> -3],
     fitted |-> [date |-> 8, party |-> 6, gym |-> 4],
     oversized |-> [casual |-> 8, gym |-> 3, office |-> -6, date |-> -4],
     tailored |-> [office |-> 9, party |-> 5, date |-> 6],
     athletic |-> [gym |-> 10, casual |-> 5]]

\* outfit_tokens: the words of the normalised categories and tags of the
\* items, commas read as blanks.  The key "t shirt" of the source's table
\* holds a blank, so no token equals it, and the table above leaves it out.
OutfitTokens(items) ==
    UNION {Split(Replace(normalize_string(x.text), ",", " "), "") :
        x \in {y \in UNION {{i.custom_category, i.specific_category,
                                i.general_category, i.tags} : i \in items} : Given(y)}}

RECURSIVE SumAffinity(_, _)
SumAffinity(tokens, target) ==
    IF tokens = {} THEN 0
    ELSE LET t == CHOOSE t \in tokens : TRUE
         IN  keyword_weights[t][target] + SumAffinity(tokens \ {t}, target)

\* check_mood_appropriateness for a mood that is given: 5 when no token of
\* the outfit has a weight for the mood, else int(5.5 + 4.5 * the mean
\* affinity) kept within 1..10.  The source computes in floating point and
\* the value below is the exact one; the two differ only where the exact
\* value is a whole number that the floating-point sum misses (affinities
\* -0.9, -0.8 and 0.7, say), which no outfit of RuleRequests produces.
check_mood_appropriateness(items, target_mood) ==
    LET target == normalize_string(target_mood)
        relevant == {t \in OutfitTokens(items) :
                        /\ t \in DOMAIN keyword_weights
                        /\ target \in DOMAIN keyword_weights[t]}
        n == Cardinality(relevant)
        total == SumAffinity(relevant, target)
        final_score == (110 * n + 9 * total) \div (20 * n)
    IN  IF n = 0 THEN 5
        ELSE IF final_score > 10 THEN 10
        ELSE IF final_score < 1 THEN 1
        ELSE final_score

\* logic_score: 9 when top and bottom are both casual or both not, else 7.
LogicScore(top_cat, bot_cat) ==
    LET casual_tops == {"t shirt", "tank", "hoodie", "sweatshirt"}
        casual_bots == {"jeans", "shorts", "leggings", "joggers"}
        is_top_casual == \E c \in casual_tops : InStr(c, top_cat)
        is_bot_casual == \E c \in casual_bots : InStr(c, bot_cat)
    IN  IF is_top_casual = is_bot_casual THEN 9 ELSE 7

\* No answer of the rule-based endpoint.
NoScore == [status |-> "none", total_score |-> 0, breakdown |-> <<>>,
            matched_formulas |-> <<>>]

\* score_outfit as score_outfit_rules calls it: the answer and the cache it
\* leaves.  Without a top or a bottom the outfit is incomplete and nothing
\* is checked.  A top or bottom whose custom_category is None makes
\* normalize_string raise after the formulas were checked, and the
\* endpoint answers HTTP 500.
score_outfit(cache, req) ==
    IF ~req.top.given \/ ~req.bottom.given
    THEN [answer |-> [NoScore EXCEPT !.status = "success"], cache |-> cache]
    ELSE
    LET items == {i \in {req.top, req.bottom, req.layer} : i.given}
        checked == check_outfit_formulas(cache, items)
        formula_score == IF checked.score < 5 THEN 5 ELSE checked.score
        color_score == check_color_harmony(items)
        raises == ~req.top.custom_category.given \/ ~req.bottom.custom_category.given
        logic_score == LogicScore(normalize_string(req.top.custom_category.text),
                                  normalize_string(req.bottom.custom_category.text))
        mood_score == check_mood_appropriateness(items, req.mood.text)
        total_score == IF Given(req.mood)
                       THEN (25 * formula_score + 75 * color_score
                             + 90 * logic_score + 60 * mood_score) \div 30
                       ELSE formula_score + color_score * 3 + logic_score * 4
        breakdown == <<[criterion |-> "Outfit Structure",
                        score |-> Min(10, formula_score \div 3)],
                       [criterion |-> "Color Harmony", score |-> color_score],
                       [criterion |-> "Style Logic", score |-> logic_score]>>
                     \o (IF Given(req.mood)
                         THEN <<[criterion |-> "Mood Appropriateness",
                                 score |-> mood_score]>>
                         ELSE <<>>)
    IN  IF raises
        THEN [answer |-> [NoScore EXCEPT !.status = "HTTP 500"], cache |-> checked.cache]
        ELSE [answer |-> [status |-> "success", total_score |-> Min(100, total_score),
                          breakdown |-> breakdown,
                          matched_formulas |-> checked.matches],
              cache |-> checked.cache]

\* What load_rules can leave in the cache: each rule book missing, or
\* loaded with or without an outfit_formulas list.
LoadedRules ==
    LET curated ==
            <<[formula_name |-> "Weekend Uniform",
               components |-> <<"jeans", "T-shirt", "cardigan">>]>>
        dior ==
            <<[formula_name |-> "Town Ensemble", components |-> <<"blouse", "trousers">>],
              [formula_name |-> "Evening", components |-> <<"gown", "heels", "stole">>]>>
    IN  {[curated |-> c, dior |-> d] :
            c \in {NoBook, [has |-> TRUE, outfit_formulas |-> <<>>],
                   [has |-> TRUE, outfit_formulas |-> curated]},
            d \in {NoBook, [has |-> TRUE, outfit_formulas |-> dior]}}

\* The requests: a top (or none), a bottom, a layer (or none) and a mood
\* (or none).
RuleRequests ==
    {[top |-> t, bottom |-> b, layer |-> l, mood |-> m] :
        t \in {NoItem,
               Item("top", None, Some("T-Shirt"), Some("cotton, casual"), <<"White">>),
               Item("top", Some("blouse"), Some(" Silk Blouse"), None, <<"Cream", "Navy">>),
               Item("top", Some("Hoodie"), None, None, <<>>)},
        b \in {Item("bottom", None, Some("Jeans"), Some("denim"), <<"Blue">>),
               Item("bottom", None, Some("Tailored-Trousers"), Some("tailored formal"),
                    <<"black", "Red">>)},
        l \in {NoItem, Item("layer", None, Some("Cardigan"), None, <<"Green">>)},
        m \in {None, Some("Casual"), Some("Office")}}

\* The requests other clients send in between: one that is scored, and one
\* whose top has no custom_category.
OtherRequests ==
    {[top |-> Item("top", None, Some("T-Shirt"), Some("cotton, casual"), <<"White">>),
      bottom |-> Item("bottom", None, Some("Jeans"), Some("denim"), <<"Blue">>),
      layer |-> NoItem, mood |-> None],
     [top |-> Item("top", Some("Hoodie"), None, None, <<>>),
      bottom |-> Item("bottom", None, Some("Jeans"), Some("denim"), <<"Blue">>),
      layer |-> NoItem, mood |-> Some("Office")]}

\* The calls of the rule-based endpoint so far: the request whose answers
\* are compared, the cache as load_rules left it, how many calls were made
\* and how many of them with that request, and the first and the latest
\* answer to it.
NoRuleCalls ==
    [req |-> [top |-> NoItem, bottom |-> NoItem, layer |-> NoItem, mood |-> None],
     loaded |-> NoRules, calls |-> 0, asked |-> 0, first |-> NoScore, last |-> NoScore]

\* POST /rule-score with the request: score_outfit runs on the shared
\* service and its answer is returned.
ScoreOutfitRules ==
    /\ fin.calls < MaxCalls
    /\ LET scored == score_outfit(rules_cache, fin.req)
       IN  /\ rules_cache' = scored.cache
           /\ fin' = [fin EXCEPT !.calls = @ + 1, !.asked = @ + 1,
                                 !.first = IF fin.asked = 0 THEN scored.answer ELSE @,
                                 !.last = scored.answer]
    /\ UNCHANGED <<corpus, client, model, collectionExists, index, lastInit,
                   result, retrieved, running, retry, wardrobe>>

\* POST /rule-score with another outfit, between two calls with the request.
ScoreOtherOutfit(req) ==
    /\ fin.calls < MaxCalls
    /\ req # fin.req
    /\ rules_cache' = score_outfit(rules_cache, req).cache
    /\ fin' = [fin EXCEPT !.calls = @ + 1]
    /\ UNCHANGED <<corpus, client, model, collectionExists, index, lastInit,
                   result, retrieved, running, retry, wardrobe>>

InitRules ==
    /\ corpus = <<>>
    /\ client = FALSE
    /\ model = FALSE
    /\ collectionExists = FALSE
    /\ index = {}
    /\ lastInit = NoInit
    /\ result = NoResult
    /\ retrieved = NoRetrieval
    /\ running = NoCalls
    /\ retry = NoRetry
    /\ wardrobe = NoWardrobe
    /\ rules_cache \in LoadedRules
    /\ \E req \in RuleRequests :
          fin = [NoRuleCalls EXCEPT !.req = req, !.loaded = rules_cache]

NextRules ==
    \/ ScoreOutfitRules
    \/ \E req \in OtherRequests : ScoreOtherOutfit(req)

SpecRules == InitRules /\ [][NextRules]_vars

(***************************************************************************)
(* ColorScoringService._generate_with_retry: the generation call of the    *)
(* colour analysis, retried with a back-off.  One step per turn of the     *)
(* while loop: the generate_content call, and what the except clause does  *)
(* with its error.                                                         *)
(***************************************************************************)
\* delays = [1, 2, 3, 2], in seconds, and retries = len(delays).
delays == <<1, 2, 3, 2>>

retries == Len(delays)

\* random.uniform(0, 0.5), in tenths of a second.
Jitters == {0, 3, 5}

\* What one generate_content call can do: return a response, or raise an
\* error with one of these texts.
ErrorTexts == {"429 Too Many Requests",
               "RESOURCE_EXHAUSTED: quota exceeded",
               "request timed out after 4290 ms",
               "503 UNAVAILABLE",
               ""}

\* Every error is retried.
IsRateLimitAnyError(error_str) == TRUE

\* "429" in error_str or "RESOURCE_EXHAUSTED" in error_str
IsRateLimit(error_str) ==
    InStr("429", error_str) \/ InStr("RESOURCE_EXHAUSTED", error_str)

\* The first delay, whatever the attempt.
BaseDelayFirst(attempt) == delays[1]

\* delays[attempt], the list being 0-based in the source.
BaseDelay(attempt) == delays[attempt + 1]

\* A call of _generate_with_retry begins: attempt = 0.
GenerateWithRetry ==
    /\ retry.pc \in {"idle", "returned", "raised"}
    /\ retry' = [NoRetry EXCEPT !.pc = "generate_content"]
    /\ UNCHANGED <<vectorVars, rules_cache, wardrobe>>

\* One turn of the loop.  The call returns: its response is returned.  It
\* raises a rate-limit error: re-raised when attempt >= retries, else the
\* function sleeps delays[attempt] plus the jitter and attempt grows by
\* one; the while condition then decides between another turn and falling
\* off the end of the function, which returns None.  It raises any other
\* error: re-raised.
GenerateContent(outcome, jitter) ==
    /\ retry.pc = "generate_content"
    /\ LET log == Append(retry.log, outcome)
       IN  retry' =
             IF outcome = "ok"
             THEN [retry EXCEPT !.pc = "returned", !.log = log,
                                !.response = Len(log)]
             ELSE IF IsRateLimit(outcome)
             THEN IF retry.attempt >= retries
                  THEN [retry EXCEPT !.pc = "raised", !.log = log,
                                     !.error = outcome]
                  ELSE [retry EXCEPT
                          !.pc = IF retry.attempt + 1 <= retries
                                 THEN "generate_content" ELSE "returned",
                          !.log = log,
                          !.attempt = retry.attempt + 1,
                          !.sleeps = Append(retry.sleeps,
                                            [base |-> BaseDelay(retry.attempt),
                                             jitter |-> jitter])]
             ELSE [retry EXCEPT !.pc = "raised", !.log = log, !.error = outcome]
    /\ UNCHANGED <<vectorVars, rules_cache, wardrobe>>

InitRetry ==
    /\ corpus = <<>>
    /\ client = FALSE
    /\ model = FALSE
    /\ collectionExists = FALSE
    /\ index = {}
    /\ lastInit = NoInit
    /\ result = NoResult
    /\ retrieved = NoRetrieval
    /\ running = NoCalls
    /\ fin = NoRequest
    /\ retry = NoRetry
    /\ rules_cache = NoRules
    /\ wardrobe = NoWardrobe

NextRetry ==
    \/ GenerateWithRetry
    \/ \E outcome \in {"ok"} \cup ErrorTexts, jitter \in Jitters : GenerateContent(outcome, jitter)

SpecRetry == InitRetry /\ [][NextRetry]_vars

(***************************************************************************)
(* POST /remove: the items of the request are deleted in parallel, one     *)
(* delete_wardrobe_item call per item id in the thread pool.  One step per *)
(* call of a task to the database or the bucket; what a task computes      *)
(* between two calls belongs to the step of the call before.               *)
(***************************************************************************)
\* The documents of the wardrobe collection, by document id, as
\* create_wardrobe_item wrote them: the owner and the image.
Documents ==
    [w1 |-> [user_id |-> "u1", image_id |-> "i1"],
     w2 |-> [user_id |-> "u1", image_id |-> "i2"],
     w3 |-> [user_id |-> "u2", image_id |-> "i3"]]

\* The users: wardrobe_id_list of every user document, as add_wardrobe_item
\* left it.
WardrobeLists == [u1 |-> <<"w1", "w2">>, u2 |-> <<"w3">>]

\* The item ids a client may send: document ids, image ids, and an id of
\* nothing.
RequestIds == {"w1", "w2", "w3", "i1", "i3", "zz"}

RECURSIVE ItemIdLists(_)
ItemIdLists(n) ==
    IF n = 0 THEN {<<>>}
    ELSE ItemIdLists(n - 1)
         \cup {Append(l, i) : l \in {k \in ItemIdLists(n - 1) : Len(k) = n - 1},
                              i \in RequestIds}

\* A task of the request: where it stands, the item id it works on (swapped
\* for the document id when the item was found by its image id), the
\* document it fetched, the wardrobe_id_list it read, and what it returned.
NewTask(item_id) ==
    [pc |-> "get_document", item_id |-> item_id, item |-> "", current_list |-> <<>>,
     success |-> FALSE]

\* list.remove(x): the first x goes.
RECURSIVE ListRemove(_, _)
ListRemove(list, x) ==
    IF list = <<>> THEN <<>>
    ELSE IF Head(list) = x THEN Tail(list)
    ELSE <<Head(list)>> \o ListRemove(Tail(list), x)

InList(x, list) == \E k \in 1..Len(list) : list[k] = x

\* The ownership check that lets everything through.
OwnershipMismatchNever(item, user_id) == FALSE

\* item.get("user_id") != user_id
OwnershipMismatch(item, user_id) == Documents[item].user_id # user_id

\* The task goes on with the item it found: it returns False on an
\* ownership mismatch, else it turns to the image.
Found(t, item) ==
    wardrobe' = [wardrobe EXCEPT
        !.tasks[t].item = item,
        !.tasks[t].item_id = item,
        !.tasks[t].pc = IF OwnershipMismatch(item, wardrobe.user_id)
                        THEN "done" ELSE "delete_image"]

\* get_document(item_id): the document, or AppwriteException, after which
\* the item is looked up by image id.
GetDocument(t) ==
    /\ t \in DOMAIN wardrobe.tasks
    /\ wardrobe.tasks[t].pc = "get_document"
    /\ IF wardrobe.tasks[t].item_id \in wardrobe.docs
       THEN Found(t, wardrobe.tasks[t].item_id)
       ELSE wardrobe' = [wardrobe EXCEPT !.tasks[t].pc = "list_documents"]
    /\ UNCHANGED <<vectorVars, retry, rules_cache>>

\* list_documents(image_id = item_id): the first document of the result is
\* the item and item_id becomes its document id; with an empty result the
\* task returns False.
ListDocuments(t) ==
    /\ t \in DOMAIN wardrobe.tasks
    /\ wardrobe.tasks[t].pc = "list_documents"
    /\ LET res == {d \in wardrobe.docs : Documents[d].image_id = wardrobe.tasks[t].item_id}
       IN  IF res # {}
           THEN \E item \in res : Found(t, item)
           ELSE wardrobe' = [wardrobe EXCEPT !.tasks[t].pc = "done"]
    /\ UNCHANGED <<vectorVars, retry, rules_cache>>

\* delete_image(bucket, image_id): the file goes; a failure of the bucket
\* is swallowed by delete_image.
DeleteImage(t) ==
    /\ t \in DOMAIN wardrobe.tasks
    /\ wardrobe.tasks[t].pc = "delete_image"
    /\ LET image_id == Documents[wardrobe.tasks[t].item].image_id
       IN  wardrobe' = [wardrobe EXCEPT
               !.images = @ \ {image_id},
               !.effects = @ \cup {[task |-> t, op |-> "delete_image", target |-> image_id]},
               !.tasks[t].pc = "get_user"]
    /\ UNCHANGED <<vectorVars, retry, rules_cache>>

\* remove_wardrobe_item, the read: the user document is fetched and the id
\* removed from the task's copy of the list; without the id in the list
\* nothing is written.
GetUser(t) ==
    /\ t \in DOMAIN wardrobe.tasks
    /\ wardrobe.tasks[t].pc = "get_user"
    /\ LET current_list == wardrobe.lists[wardrobe.user_id]
           wardrobe_id == wardrobe.tasks[t].item_id
       IN  wardrobe' = [wardrobe EXCEPT
               !.tasks[t].current_list = ListRemove(current_list, wardrobe_id),
               !.tasks[t].pc = IF InList(wardrobe_id, current_list)
                               THEN "update_document" ELSE "delete_document"]
    /\ UNCHANGED <<vectorVars, retry, rules_cache>>

\* remove_wardrobe_item, the write: the task's list replaces the stored one.
UpdateDocument(t) ==
    /\ t \in DOMAIN wardrobe.tasks
    /\ wardrobe.tasks[t].pc = "update_document"
    /\ wardrobe' = [wardrobe EXCEPT
           !.lists[wardrobe.user_id] = wardrobe.tasks[t].current_list,
           !.effects = @ \cup {[task |-> t, op |-> "unlink",
                                target |-> wardrobe.tasks[t].item_id]},
           !.tasks[t].pc = "delete_document"]
    /\ UNCHANGED <<vectorVars, retry, rules_cache>>

\* delete_document(item_id): the document goes and the task returns True;
\* when it is gone already the AppwriteException makes the task return
\* False.
DeleteDocument(t) ==
    /\ t \in DOMAIN wardrobe.tasks
    /\ wardrobe.tasks[t].pc = "delete_document"
    /\ IF wardrobe.tasks[t].item_id \in wardrobe.docs
       THEN wardrobe' = [wardrobe EXCEPT
               !.docs = @ \ {wardrobe.tasks[t].item_id},
               !.effects = @ \cup {[task |-> t, op |-> "delete_document",
                                    target |-> wardrobe.tasks[t].item_id]},
               !.tasks[t].success = TRUE,
               !.tasks[t].pc = "done"]
       ELSE wardrobe' = [wardrobe EXCEPT !.tasks[t].pc = "done"]
    /\ UNCHANGED <<vectorVars, retry, rules_cache>>

\* The errors of the response: the item ids of the tasks from k on that
\* returned False.
RECURSIVE Errors(_, _)
Errors(tasks, k) ==
    IF k > Len(tasks) THEN <<>>
    ELSE (IF tasks[k].success THEN <<>> ELSE <<wardrobe.item_ids[k]>>)
         \o Errors(tasks, k + 1)

\* asyncio.gather has every result: the response is sent.
Gather ==
    /\ ~wardrobe.response.sent
    /\ \A t \in DOMAIN wardrobe.tasks : wardrobe.tasks[t].pc = "done"
    /\ LET errors == Errors(wardrobe.tasks, 1)
       IN  wardrobe' = [wardrobe EXCEPT
               !.response = [sent |-> TRUE,
                             deleted_count |-> Len(wardrobe.tasks) - Len(errors),
                             errors |-> errors]]
    /\ UNCHANGED <<vectorVars, retry, rules_cache>>

\* A /remove request has arrived and its tasks are created.
InitRemove ==
    /\ corpus = <<>>
    /\ client = FALSE
    /\ model = FALSE
    /\ collectionExists = FALSE
    /\ index = {}
    /\ lastInit = NoInit
    /\ result = NoResult
    /\ retrieved = NoRetrieval
    /\ running = NoCalls
    /\ fin = NoRequest
    /\ retry = NoRetry
    /\ rules_cache = NoRules
    /\ \E user_id \in DOMAIN WardrobeLists, item_ids \in ItemIdLists(MaxItems) :
          wardrobe = [NoWardrobe EXCEPT
              !.docs = DOMAIN Documents,
              !.images = {Documents[d].image_id : d \in DOMAIN Documents},
              !.lists = WardrobeLists,
              !.user_id = user_id,
              !.item_ids = item_ids,
              !.tasks = [k \in 1..Len(item_ids) |-> NewTask(item_ids[k])]]

NextRemove ==
    \/ \E t \in 1..MaxItems : GetDocument(t)
    \/ \E t \in 1..MaxItems : ListDocuments(t)
    \/ \E t \in 1..MaxItems : DeleteImage(t)
    \/ \E t \in 1..MaxItems : GetUser(t)
    \/ \E t \in 1..MaxItems : UpdateDocument(t)
    \/ \E t \in 1..MaxItems : DeleteDocument(t)
    \/ Gather

SpecRemove == InitRemove /\ [][NextRemove]_vars

(***************************************************************************)
(* The claims.                                                             *)
(***************************************************************************)
\* The points the hits of a result add: floor(similarity * 10) for each
\* similarity above 0.3.
RECURSIVE PointsAdded(_)
PointsAdded(hits) ==
    IF hits = <<>> THEN 0
    ELSE (IF Head(hits).score > 30 THEN Head(hits).score \div 10 ELSE 0)
         + PointsAdded(Tail(hits))

CappedSum(hits) == Min(100, 60 + PointsAdded(hits))

\* C1: for every hit list and every mood multiplier in {0.4, 0.7, 1.0, 1.1}
\* the total_score of a returned result is an integer from 1 to 100.
C1_TotalScoreBounded ==
    result.status = "ok" =>
        /\ result.multiplier \in {4, 7, 10, 11}
        /\ result.total_score \in 1..100

\* C1 witness: five highly similar hits and the boost: 110 is clamped to 100.
C1_Witness ==
    /\ result.status = "ok"
    /\ Len(result.hits) = 5
    /\ result.multiplier = 11
    /\ CappedSum(result.hits) = 100
    /\ result.total_score = 100

\* C2: the total is 60 plus floor(similarity * 10) for each hit above 0.3
\* (nothing at exactly 0.3), capped at 100, times the mood multiplier,
\* truncated, clamped to [1, 100].
C2_FusionFormula ==
    result.status = "ok" =>
        result.total_score =
            Min(100, Max(1, (CappedSum(result.hits) * result.multiplier) \div 10))

\* C3: the multiplier is the stated piecewise function of the outfit/mood
\* similarity: below 0.15 gives 0.4, from 0.15 to below 0.25 gives 0.7, above
\* 0.4 gives 1.1, and 0.25 to 0.4 (both included) gives 1.0.
C3_MoodMultiplierPiecewise ==
    (result.status = "ok" /\ Truthy(result.mood)) =>
        LET s == result.moodSim
            m == result.multiplier
        IN  /\ s < 150 => m = 4
            /\ (150 <= s /\ s < 250) => m = 7
            /\ s > 400 => m = 11
            /\ (250 <= s /\ s <= 400) => m = 10
            /\ s = 100 => m = 4
            /\ s = 200 => m = 7
            /\ s = 300 => m = 10
            /\ s = 401 => m = 11

\* C3 witness: a mood measured at exactly 0.4 is scored as neutral.
C3_Witness ==
    /\ result.status = "ok"
    /\ Truthy(result.mood)
    /\ result.moodSim = 400
    /\ result.multiplier = 10

\* C4: with mood empty or absent the multiplier is 1.0, the gate makes no
\* embedding call (the request's only encode call is the query's) and the
\* total is the capped fusion sum.
C4_NoMoodNoGate ==
    (result.status = "ok" /\ ~Truthy(result.mood)) =>
        /\ result.multiplier = 10
        /\ result.gateCalls = 0
        /\ result.encodeCalls = 1
        /\ result.total_score = CappedSum(result.hits)

\* C4 witness: an empty-string mood, five hits whose sum passes the cap.
C4_Witness ==
    /\ result.status = "ok"
    /\ result.mood = [given |-> TRUE, text |-> ""]
    /\ Len(result.hits) = 5
    /\ 60 + PointsAdded(result.hits) > 100
    /\ result.total_score = 100

\* C5: with multiplier 0.4 the total is at most 40, with 1.1 at least 66, so
\* for the same hits the severe-mismatch score is strictly below the
\* good-match score.
C5_SevereBelowGood ==
    result.status = "ok" =>
        /\ result.multiplier = 4 =>
              /\ result.total_score <= 40
              /\ result.total_score < FinalScore(60 + PointsAdded(result.hits), 11)
        /\ result.multiplier = 11 =>
              /\ result.total_score >= 66
              /\ result.total_score > FinalScore(60 + PointsAdded(result.hits), 4)

\* C5 witness: the severe penalty on hits whose sum passes the cap.
C5_Witness ==
    /\ result.status = "ok"
    /\ result.multiplier = 4
    /\ 60 + PointsAdded(result.hits) > 100
    /\ result.total_score = 40

CritiqueNone == "Analyzed against semantically relevant rules. Top match: None."

\* C6: with an empty corpus directory initialize() creates the collection
\* and ingests nothing; a following score call finds no hit, does not raise
\* in the search, returns an empty breakdown, a critique naming top match
\* 'None' and the base 60 scaled by the multiplier: 60, 24, 42 or 66.
C6_EmptyCorpus ==
    corpus = <<>> =>
        /\ lastInit.created =>
              /\ collectionExists
              /\ lastInit.points = <<>>
              /\ lastInit.upsertCalls = 0
              /\ ~lastInit.raised
        /\ index = {}
        /\ (result.status = "raised" /\ result.queryOk) =>
              result.cause \in {"model unset", "encode"}
        /\ result.status = "ok" =>
              /\ result.hits = <<>>
              /\ result.breakdown = <<>>
              /\ SubSeq(result.critique, 1, Len(CritiqueNone)) = CritiqueNone
              /\ result.multiplier = 10 => result.total_score = 60
              /\ result.multiplier = 4 => result.total_score = 24
              /\ result.multiplier = 7 => result.total_score = 42
              /\ result.multiplier = 11 => result.total_score = 66

\* C6 witness: the collection was created over an empty directory and a
\* severely mismatched outfit was scored.
C6_Witness ==
    /\ corpus = <<>>
    /\ lastInit.created
    /\ collectionExists
    /\ result.status = "ok"
    /\ result.multiplier = 4
    /\ result.total_score = 24

\* C7: initialize() against a collection that already exists performs no
\* create_collection and no upsert, and leaves the points as they were.
C7_IdempotentIngestion ==
    (lastInit.ran /\ lastInit.existed) =>
        /\ ~lastInit.created
        /\ lastInit.upsertCalls = 0
        /\ index = lastInit.indexBefore
        /\ Cardinality(index) = Cardinality(lastInit.indexBefore)

\* C7 witness: a later initialize() met a populated collection.
C7_Witness ==
    /\ lastInit.ran
    /\ lastInit.existed
    /\ Cardinality(index) >= 3

\* C8: an encode failure during ingest_rules aborts the ingestion: it is not
\* absorbed as a per-file skip, nothing is upserted in that run and the
\* failure reaches the caller of initialize().
C8_EmbeddingFailureAborts ==
    (lastInit.created /\ lastInit.embedFailed # {}) =>
        /\ lastInit.raised
        /\ lastInit.upsertCalls = 0
        /\ index = lastInit.indexBefore

\* The payloads the readable files of a listing hold.
Fragments(files) ==
    UNION { { [source |-> files[i].name, text |-> Chunks(files[i])[k]] :
                k \in 1..Len(Chunks(files[i])) } : i \in 1..Len(files) }

\* C9: a file that cannot be read or parsed contributes no IndexEntry and is
\* logged; every fragment of every readable file is still embedded and
\* upserted, and the ingest does not raise.
C9_BadFileSkipped ==
    lastInit.created =>
        /\ \A i \in 1..Len(corpus) : ~corpus[i].readable =>
              /\ corpus[i].name \in lastInit.logged
              /\ \A k \in 1..Len(lastInit.points) :
                    lastInit.points[k].payload.source # corpus[i].name
              /\ \A p \in index : p.payload.source # corpus[i].name
        /\ (lastInit.readFailed # {} /\ lastInit.embedFailed = {}) =>
              /\ {lastInit.points[k].payload : k \in 1..Len(lastInit.points)}
                    = Fragments(corpus)
              /\ lastInit.upsertOk =>
                    /\ ~lastInit.raised
                    /\ {p.payload : p \in index} = Fragments(corpus)

\* C9 witness: the unreadable file came first and the fragments of the file
\* after it are in the collection.
C9_Witness ==
    /\ lastInit.created
    /\ Len(corpus) = 2
    /\ ~corpus[1].readable
    /\ lastInit.embedFailed = {}
    /\ ~lastInit.raised
    /\ Cardinality(index) >= 3

\* The encode calls of one run that answered: every chunk of a readable
\* file, or the chunks before the call that raised.
RECURSIVE Embedded(_, _, _)
Embedded(files, failAt, i) ==
    IF i > Len(files) THEN 0
    ELSE (IF ~files[i].readable THEN 0
          ELSE IF failAt[i] = 0 THEN Len(Chunks(files[i]))
          ELSE failAt[i] - 1)
         + Embedded(files, failAt, i + 1)

\* C10: within one ingest run the ids are 0, 1, 2, ... in emission order
\* across all files, no two fragments share an id, and as many points are
\* upserted as fragments were embedded.
C10_IdsStrictlyIncreasing ==
    lastInit.created =>
        /\ \A k \in 1..Len(lastInit.points) : lastInit.points[k].id = k - 1
        /\ \A j, k \in 1..Len(lastInit.points) :
              j < k => lastInit.points[j].id < lastInit.points[k].id
        /\ Len(lastInit.points) = Embedded(corpus, lastInit.failAt, 1)
        /\ ~lastInit.raised =>
              /\ Cardinality(index) = Len(lastInit.points)
              /\ {p.id : p \in index} = 0..(Len(lastInit.points) - 1)

\* C10 witness: two files, seven fragments, all upserted.
C10_Witness ==
    /\ lastInit.created
    /\ ~lastInit.raised
    /\ Len(lastInit.points) = 7
    /\ Cardinality({p.payload.source : p \in index}) = 2

\* The entries a retrieval call may return: all of them, or those of the
\* source asked for.
Eligible(r) ==
    IF r.fn = "retrieve_from_source" THEN {p \in index : p.payload.source = r.source}
    ELSE index

\* The fragments of hits i.. as retrieve_from_source lists them.
RECURSIVE Listed(_, _)
Listed(hits, i) ==
    IF i > Len(hits) THEN ""
    ELSE "- " \o hits[i].payload.text \o "\\n" \o Listed(hits, i + 1)

\* C11: each fragment retrieve_from_source returns comes from an IndexEntry
\* whose payload source is the filename asked for; when no entry has that
\* source the result is empty and no error is raised.
C11_SourceFilter ==
    retrieved.fn = "retrieve_from_source" =>
        /\ \A i \in 1..Len(retrieved.hits) :
              /\ retrieved.hits[i].payload.source = retrieved.source
              /\ \E p \in index : /\ p.id = retrieved.hits[i].id
                                  /\ p.payload = retrieved.hits[i].payload
                                  /\ p.payload.source = retrieved.source
        /\ retrieved.status = "returned" =>
              retrieved.value = Listed(retrieved.hits, 1)
        /\ (retrieved.up /\ retrieved.encodeOk /\ retrieved.queryOk
              /\ \A p \in index : p.payload.source # retrieved.source) =>
              /\ retrieved.status = "returned"
              /\ retrieved.hits = <<>>
              /\ retrieved.value = ""

\* C11 witness: the three fragments of colors.json are returned from a
\* collection that also holds the four of formulas.json, all equally near.
C11_Witness ==
    /\ retrieved.fn = "retrieve_from_source"
    /\ retrieved.status = "returned"
    /\ retrieved.source = "colors.json"
    /\ Len(retrieved.hits) = 3
    /\ Cardinality(index) = 7
    /\ \A v \in Vectors(index) : retrieved.query[v] = 95

\* C12: a retrieval that succeeds returns min(limit, eligible entries)
\* fragments, never more than limit, by descending similarity to the query,
\* and no eligible entry left out is more similar than one returned.
C12_TopKDescending ==
    (retrieved.status = "returned" /\ retrieved.cause = "") =>
        LET hits == retrieved.hits
            ids == {hits[i].id : i \in 1..Len(hits)}
        IN  /\ Len(hits) <= retrieved.limit
            /\ Len(hits) = Min(retrieved.limit, Cardinality(Eligible(retrieved)))
            /\ Cardinality(ids) = Len(hits)
            /\ \A i \in 1..Len(hits) :
                  \E p \in Eligible(retrieved) :
                      /\ p.id = hits[i].id
                      /\ hits[i].score = retrieved.query[p.vector]
            /\ \A i \in 1..(Len(hits) - 1) : hits[i].score >= hits[i + 1].score
            /\ \A p \in Eligible(retrieved) : p.id \notin ids =>
                  \A i \in 1..Len(hits) : retrieved.query[p.vector] <= hits[i].score

\* C12 witness: five of seven entries, the nearest strictly nearer than the
\* fifth, and an entry left out that is farther still.
C12_Witness ==
    /\ retrieved.fn = "retrieve_relevant_rules"
    /\ retrieved.status = "returned"
    /\ retrieved.limit = 5
    /\ Cardinality(index) = 7
    /\ Len(retrieved.hits) = 5
    /\ retrieved.hits[1].score > retrieved.hits[5].score
    /\ \E p \in index : retrieved.query[p.vector] < retrieved.hits[5].score

EmptySuccess(fn) ==
    IF fn = "retrieve_relevant_rules" THEN RulesContext(<<>>, 1)
    ELSE SourceContext(<<>>, 1)

\* C14: a retrieval call on a service that was never initialized fails with
\* a signal the caller can tell from a successful retrieval that found no
\* fragments: it does not hand back the value of an empty success.
C14_UninitializedSignalled ==
    (retrieved.status # "none" /\ ~retrieved.up) =>
        \/ retrieved.status = "raised"
        \/ retrieved.value # EmptySuccess(retrieved.fn)

\* C15: when the embedding call or the index query of a retrieval fails,
\* the caller gets an error signal, never a returned string.
C15_RetrievalFailureSurfaced ==
    (retrieved.status # "none" /\ retrieved.up
        /\ (~retrieved.encodeOk \/ ~retrieved.queryOk)) =>
        retrieved.status = "raised"

\* C16: score_outfit_semantic returns no score after an internal failure:
\* on a service that is not initialized, or when an encode call or the index
\* query fails, the call raises, the endpoint answers HTTP 500 and no
\* total_score, breakdown or critique is produced.
C16_NoScoreAfterFailure ==
    result.status # "none" =>
        /\ (~result.up \/ ~result.encodeOk \/ ~result.queryOk) =>
              /\ result.status = "raised"
              /\ result.http = 500
              /\ result.total_score = 0
              /\ result.breakdown = <<>>
              /\ result.critique = ""
        /\ result.status = "raised" <=> result.http = 500
        /\ result.status = "ok" <=> result.http = 200

\* C16 witness: the index query failed on an initialized service over a
\* populated collection.
C16_Witness ==
    /\ result.status = "raised"
    /\ result.cause = "query"
    /\ result.up
    /\ ~result.queryOk
    /\ result.http = 500
    /\ Cardinality(index) >= 3

\* A request answered with a score or with hits.
Answered ==
    \/ result.status = "ok"
    \/ retrieved.status = "returned" /\ retrieved.hits # <<>>

\* C17: a request is answered with a score or with hits only after
\* initialize() has completed: client and model set, the collection created
\* and the corpus ingested; after an initialize() that failed no request is
\* answered from the index.
C17_IngestBeforeServing ==
    /\ Answered =>
          /\ lastInit.ran
          /\ ~lastInit.raised
          /\ client
          /\ model
          /\ collectionExists
          /\ {p.payload : p \in index} = Fragments(corpus)
    /\ StartupFailed => ~Answered

\* C18: however two or more concurrent initialize() calls interleave,
\* create_collection is executed at most once, ingest_rules runs at most
\* once and the client and the model are each constructed at most once.
C18_InitializeGuarded ==
    /\ running.calls.create_collection <= 1
    /\ running.calls.ingest_rules <= 1
    /\ running.calls.client <= 1
    /\ running.calls.model <= 1

\* A step that is a scoring or retrieval call.
CallStep ==
    \/ result' # result /\ result'.status # "none"
    \/ retrieved' # retrieved /\ retrieved'.status # "none"

\* C19: a scoring or retrieval call leaves the IndexEntries, the client, the
\* model and the collection as they were; the entries change only in the
\* initialize() that creates the collection and ingests.
C19_ReadOnly ==
    [][/\ CallStep => UNCHANGED <<index, client, model, collectionExists, corpus>>
       /\ index' # index =>
             /\ ~collectionExists
             /\ collectionExists'
             /\ lastInit'.created
             /\ index' = Range(lastInit'.points)]_vars

\* C19 witness: a retrieval returned hits and the collection is as the
\* ingest left it.
C19_Witness ==
    /\ lastInit.created
    /\ ~lastInit.raised
    /\ Cardinality(index) = 7
    /\ index = Range(lastInit.points)
    /\ retrieved.status = "returned"
    /\ Len(retrieved.hits) >= 3

\* sub occurs in the text s.
Contains(s, sub) ==
    \E i \in 1..(Len(s) - Len(sub) + 1) : SubSeq(s, i, i + Len(sub) - 1) = sub

\* The hits above the relevance threshold, in rank order.
RECURSIVE Cleared(_)
Cleared(hits) ==
    IF hits = <<>> THEN <<>>
    ELSE (IF Head(hits).score > 30 THEN <<Head(hits)>> ELSE <<>>)
         \o Cleared(Tail(hits))

TwoDecimals(sim) ==
    LET m == IF sim < 0 THEN -sim ELSE sim
        h == (m + 5) \div 10
    IN  (IF sim < 0 THEN "-" ELSE "") \o ToString(h \div 100) \o "."
        \o (IF h % 100 < 10 THEN "0" ELSE "") \o ToString(h % 100)

TopMatch == IF result.hits # <<>> THEN result.hits[1].payload.text ELSE "None"

CritiqueBase ==
    "Analyzed against semantically relevant rules. Top match: " \o TopMatch \o "."

\* The text the critique carries after its first sentence.
Annotation ==
    SubSeq(result.critique, Len(CritiqueBase) + 1, Len(result.critique))

\* C21 as stated: the critique names the top fragment's text; with a
\* multiplier other than 1.0 it carries an annotation naming the occasion
\* and the similarity to 2 decimals, with 1.0 it carries none.
C21_AnnotationNamesSimilarity ==
    result.status = "ok" =>
        /\ SubSeq(result.critique, 1, Len(CritiqueBase)) = CritiqueBase
        /\ result.multiplier = 10 => Annotation = ""
        /\ result.multiplier # 10 =>
              /\ Contains(Annotation, "'" \o result.mood.text \o "'")
              /\ Contains(Annotation, TwoDecimals(result.moodSim))

\* C21: the critique names the top fragment's text ('None' without hits);
\* with multiplier 0.4 or 0.7 it carries a warning naming the occasion and
\* the similarity rounded to 2 decimals, with 1.1 a praise naming the
\* occasion only, with 1.0 no annotation.
C21_CritiqueAnnotation ==
    result.status = "ok" =>
        /\ SubSeq(result.critique, 1, Len(CritiqueBase)) = CritiqueBase
        /\ result.multiplier = 10 => Annotation = ""
        /\ result.multiplier \in {4, 7} =>
              Annotation = " WARNING: Significant mismatch detected with occasion '"
                           \o result.mood.text \o "' (Sim: "
                           \o TwoDecimals(result.moodSim) \o ")."
        /\ result.multiplier = 11 =>
              /\ Annotation = " Great fit for occasion '" \o result.mood.text \o "'!"
              /\ ~Contains(Annotation, TwoDecimals(result.moodSim))

\* C21 witness: a similarity of 0.146 is penalised as below 0.15 and shown
\* as 0.15, after the text of the top hit.
C21_Witness ==
    /\ result.status = "ok"
    /\ result.hits # <<>>
    /\ result.multiplier = 4
    /\ result.moodSim = 146
    /\ Contains(result.critique, "(Sim: 0.15)")
    /\ Contains(result.critique, "Top match: " \o result.hits[1].payload.text)

\* The leaf scalars of a JSON value in document order, each with the path
\* that leads to it: the keys of the objects and the positions in the
\* sequences passed on the way.
RECURSIVE Leaves(_, _)
RECURSIVE LeavesFrom(_, _, _)
LeavesFrom(x, path, i) ==
    IF i > Len(x.items) THEN <<>>
    ELSE Leaves(x.items[i],
                Append(path, IF x.t = "dict"
                               THEN [kind |-> "key", text |-> x.keys[i]]
                               ELSE [kind |-> "index", text |-> ToString(i - 1)]))
         \o LeavesFrom(x, path, i + 1)

Leaves(x, path) ==
    IF x.t \in {"dict", "list"} THEN LeavesFrom(x, path, 1)
    ELSE <<[path |-> path, leaf |-> x]>>

\* The number of leaf scalars of a JSON value.
RECURSIVE CountLeaves(_)
RECURSIVE CountLeavesFrom(_, _)
CountLeavesFrom(x, i) ==
    IF i > Len(x.items) THEN 0
    ELSE CountLeaves(x.items[i]) + CountLeavesFrom(x, i + 1)

CountLeaves(x) == IF x.t \in {"dict", "list"} THEN CountLeavesFrom(x, 1) ELSE 1

\* The string form of a scalar.
StringForm(x) ==
    IF x.t = "str" THEN x.s
    ELSE IF x.t = "int" THEN ToString(x.n)
    ELSE IF x.t = "bool" THEN (IF x.n = 1 THEN "True" ELSE "False")
    ELSE "None"

\* The key-path of a leaf as text: every step is 'segment: ', but the
\* position of a plain string in its sequence is not written.
RECURSIVE KeyPath(_, _, _)
KeyPath(path, leaf, i) ==
    IF i > Len(path) THEN ""
    ELSE (IF i = Len(path) /\ path[i].kind = "index" /\ leaf.t = "str"
            THEN ""
            ELSE path[i].text \o ": ")
         \o KeyPath(path, leaf, i + 1)

Prefixed(seq, prefix) == [i \in 1..Len(seq) |-> prefix \o seq[i]]

\* The fragments of members i.. of a container under the stated walk, the
\* fragments of a member taken from _flatten_json over the member alone.
RECURSIVE StatedWalk(_, _)
StatedWalk(x, i) ==
    IF i > Len(x.items) THEN <<>>
    ELSE LET a == x.items[i]
         IN  (IF x.t = "dict"
                THEN Prefixed(FlattenJson(a), x.keys[i] \o ": ")
              ELSE IF a.t = "str" THEN <<a.s>>
              ELSE Prefixed(FlattenJson(a), ToString(i - 1) \o ": "))
             \o StatedWalk(x, i + 1)

\* C24: an object's fragments are its members' fragments under 'key: ', in
\* member order; a sequence's are its plain-string elements as they are and
\* the fragments of every other element under 'index: '; a string leaf
\* gives its value and any other scalar its str().
C24_StatedWalk ==
    fin.last = "doc" =>
        /\ fin.doc.t \in {"dict", "list"} => fin.out = StatedWalk(fin.doc, 1)
        /\ fin.doc.t = "str" => fin.out = <<fin.doc.s>>
        /\ fin.doc.t = "int" => fin.out = <<ToString(fin.doc.n)>>
        /\ fin.doc.t = "bool" =>
              fin.out = <<IF fin.doc.n = 1 THEN "True" ELSE "False">>
        /\ fin.doc.t = "null" => fin.out = <<"None">>

\* C24 witness: a sequence of a number, a plain string and an object: the
\* string carries no index, the others carry theirs.
C24_Witness ==
    /\ fin.last = "doc"
    /\ fin.doc = JList(<<JList(<<JInt(2), JStr("x")>>),
                         JDict(<<"k">>, <<JList(<<JNull, JList(<<>>)>>)>>)>>)
    /\ fin.out = <<"0: 0: 2", "0: x", "1: k: 0: None">>


\* An error text of the rate-limit class.
RateLimited(text) == Contains(text, "429") \/ Contains(text, "RESOURCE_EXHAUSTED")

\* The call of _generate_with_retry has ended.
Ended == retry.pc \in {"returned", "raised"}

\* C25: _generate_with_retry is a bounded retry.  Whatever the generation
\* calls do, it makes at most 5 of them; the k-th sleep has the k-th entry of
\* [1, 2, 3, 2] as its base delay, with a jitter of at most half a second;
\* when it returns, it returns the response of the first call that
\* succeeded, which is the last call it made; when the 5th call is
\* rate-limited that error is re-raised; and it never returns without a
\* response.
C25_BoundedRetry ==
    /\ Len(retry.log) <= 5
    /\ Len(retry.sleeps) <= 4
    /\ \A k \in 1..Len(retry.sleeps) :
          /\ retry.sleeps[k].base = <<1, 2, 3, 2>>[k]
          /\ retry.sleeps[k].jitter \in 0..5
    /\ retry.pc = "returned" =>
          /\ retry.response \in 1..5
          /\ retry.response = Len(retry.log)
          /\ retry.log[retry.response] = "ok"
          /\ \A j \in 1..(retry.response - 1) : retry.log[j] # "ok"
          /\ Len(retry.sleeps) = retry.response - 1
    /\ (Len(retry.log) = 5 /\ RateLimited(retry.log[5])) =>
          /\ retry.pc = "raised"
          /\ retry.error = retry.log[5]
          /\ retry.response = 0
    /\ retry.pc = "raised" => retry.error = retry.log[Len(retry.log)]

\* C25 witness: four rate-limited calls were slept on, the fifth was
\* rate-limited too and the call ended by re-raising.
C25_Witness ==
    /\ retry.pc = "raised"
    /\ Len(retry.log) = 5
    /\ \A k \in 1..5 : RateLimited(retry.log[k])
    /\ Len(retry.sleeps) = 4

\* C26: only the rate-limit error class is retried.  An error whose text
\* holds neither "429" nor "RESOURCE_EXHAUSTED" is the last thing the call
\* sees, on whichever attempt it occurs: it is re-raised, no sleep follows
\* it and no generation call follows it.
C26_OtherErrorsReraised ==
    \A k \in 1..Len(retry.log) :
        (retry.log[k] # "ok" /\ ~RateLimited(retry.log[k])) =>
            /\ k = Len(retry.log)
            /\ retry.pc = "raised"
            /\ retry.error = retry.log[k]
            /\ Len(retry.sleeps) = k - 1
            /\ retry.attempt = k - 1

\* C26 witness: the third call, after two rate-limited ones, raised an error
\* of another class and the call ended there.
C26_Witness ==
    /\ retry.pc = "raised"
    /\ Len(retry.log) = 3
    /\ RateLimited(retry.log[1]) /\ RateLimited(retry.log[2])
    /\ retry.log[3] = "503 UNAVAILABLE"
    /\ Len(retry.sleeps) = 2


\* C28: rule-based scoring is read-only and deterministic.  The rules cache
\* stays as load_rules left it, and every call with the same top, bottom,
\* layer and mood is answered with the total_score and the matched_formulas
\* of the first.
C28_ReadOnlyDeterministic ==
    /\ rules_cache = fin.loaded
    /\ fin.asked >= 2 =>
          /\ fin.last.total_score = fin.first.total_score
          /\ fin.last.matched_formulas = fin.first.matched_formulas


\* C27: after any sequence of initialize() runs, failed or interrupted ones
\* included, whenever the collection exists and the latest initialize() has
\* returned normally, the collection holds an IndexEntry for every fragment
\* of every readable corpus document and no other: a collection that exists
\* without its points is not taken for a current one.
C27_ExistingImpliesPopulated ==
    (lastInit.ran /\ ~lastInit.raised /\ collectionExists) =>
        {p.payload : p \in index} = Fragments(corpus)


\* C29: whatever the interleaving of the parallel delete_wardrobe_item calls
\* of one /remove request, once the response is sent no item that was
\* reported deleted is still in the user's wardrobe_id_list.
C29_NoRemovalLost ==
    wardrobe.response.sent =>
        \A t \in DOMAIN wardrobe.tasks :
            wardrobe.tasks[t].success =>
                ~InList(wardrobe.tasks[t].item_id, wardrobe.lists[wardrobe.user_id])

\* The task has found an item that belongs to another user.
NotOwned(t) ==
    /\ wardrobe.tasks[t].item # ""
    /\ Documents[wardrobe.tasks[t].item].user_id # wardrobe.user_id

\* C30: delete_wardrobe_item changes no other user's data.  A call that
\* found, by document id or by image id, an item of another user returns
\* False and has deleted no image, unlinked nothing and deleted no
\* document; every document that was deleted belonged to the requesting
\* user and was deleted by a call that had passed the ownership check; and
\* the documents, the images and the list of every other user are as they
\* were.
C30_OwnershipChecked ==
    /\ \A t \in DOMAIN wardrobe.tasks :
          NotOwned(t) =>
              /\ wardrobe.tasks[t].pc = "done"
              /\ ~wardrobe.tasks[t].success
              /\ \A e \in wardrobe.effects : e.task # t
    /\ \A e \in wardrobe.effects :
          e.op = "delete_document" =>
              /\ Documents[e.target].user_id = wardrobe.user_id
              /\ wardrobe.tasks[e.task].item = e.target
    /\ \A d \in DOMAIN Documents :
          Documents[d].user_id # wardrobe.user_id =>
              /\ d \in wardrobe.docs
              /\ Documents[d].image_id \in wardrobe.images
    /\ \A u \in DOMAIN WardrobeLists \ {wardrobe.user_id} : wardrobe.lists[u] = WardrobeLists[u]

\* C30 witness: the request is answered; one call had found another user's
\* item by its image id and returned False, another deleted an item of the
\* requesting user.
C30_Witness ==
    /\ wardrobe.response.sent
    /\ \E t \in DOMAIN wardrobe.tasks :
          /\ NotOwned(t)
          /\ wardrobe.item_ids[t] # wardrobe.tasks[t].item
          /\ ~wardrobe.tasks[t].success
    /\ \E t \in DOMAIN wardrobe.tasks : wardrobe.tasks[t].success

====
